---- MODULE Spec2Model ----
(***************************************************************************)
(* Model of the AWS Blogs MCP server (awslabs/aws_blogs_mcp_server):       *)
(* the five tools of server.py and the helpers of utils.py.                *)
(*                                                                         *)
(* Python strings are TLA+ strings (TLC evaluates Len, \o and SubSeq on    *)
(* them), an optional value is a tuple of length 0 (None) or 1, and an     *)
(* operation that may raise returns Raise(type, str(e)) or Ok(value).      *)
(***************************************************************************)
EXTENDS Integers, Sequences, FiniteSets, TLC

VARIABLES
    pc,         \* position of the request in flight: "idle", "fetching", "done"; of the
                \* reader's session: "reading", "awaiting", "done", "failed"
    op,         \* the tool being served: "none", "read", "session", "search", "recent", "rss", "list", "score"
    arg,        \* the arguments of the request (and, for read_blog_post, the remote page)
    idx,        \* fan-out loop position: index of the next category to retrieve
    results,    \* the local results of search_blog_posts, posts of get_recent_posts:
                \* the list the loop extends and, from line 251 (343) on, the sorted
                \* and cut list the name is bound to
    shadow,     \* accumulator of the twin run in which every failed feed is an empty feed
    ret,        \* the value returned to the caller
    raised,     \* TRUE when an exception left the handler
    fetches,    \* number of network retrievals started by the request
    failures,   \* number of those retrievals that failed
    collected,  \* reader session: concatenation of the chunk bodies read so far
    called,     \* the arguments (rss_url, limit) of the last call of a feed helper
    feed,       \* what the feed of a request for one known category answered
    answers,    \* what the feeds of the request answered, in the order of the answers
                \* (kept by the specifications whose claims are about it)
    other,      \* the locals of a second request in flight on the same event loop
    heap,       \* the objects that can be modified in place, by identity: the
                \* module-level dict AWS_BLOG_CATEGORIES and the lists that the calls
                \* in flight created and still refer to
    python,     \* the interpreter the server runs on, as far as strptime depends on it
    unsorted    \* the list the loop of the handler built, as it was when line 251
                \* (343) bound the name to the sorted list

vars == <<pc, op, arg, idx, results, shadow, ret, raised, fetches, failures, collected, called, feed,
          answers, other, heap, python, unsorted>>

-----------------------------------------------------------------------------
(* Optional values and exceptions *)

None == <<>>
Some(v) == <<v>>
IsSome(o) == Len(o) > 0
Get(o) == o[1]

\* the locals of a request: no request is being served
NoRequest ==
    [pc |-> "idle", op |-> "none", arg |-> <<>>, idx |-> 0, results |-> <<>>, ret |-> <<>>,
     raised |-> FALSE, answers |-> <<>>]

Ok(v) == [exc |-> FALSE, val |-> v]
Raise(type, m) == [exc |-> TRUE, type |-> type, msg |-> m]

\* the exception classes met here; all of them derive from Exception
ExceptionClasses == {"ValueError", "TimeoutException", "HTTPStatusError", "ConnectError"}

\* does "except <class>" catch an exception of this type
Catches(class, type) ==
    IF class = "Exception" THEN type \in ExceptionClasses ELSE type = class

Min(a, b) == IF a < b THEN a ELSE b
Max(a, b) == IF a > b THEN a ELSE b

-----------------------------------------------------------------------------
(* Python str primitives *)

Char(s, i) == SubSeq(s, i, i)

\* s[a:b] for 0 <= a, 0 <= b
Slice(s, a, b) == SubSeq(s, Min(a, Len(s)) + 1, Min(b, Len(s)))

\* s.startswith(p)
StartsWith(s, p) == Len(s) >= Len(p) /\ SubSeq(s, 1, Len(p)) = p

\* s.endswith(p)
EndsWith(s, p) == Len(s) >= Len(p) /\ SubSeq(s, Len(s) - Len(p) + 1, Len(s)) = p

RECURSIVE FindFrom(_, _, _)
FindFrom(hay, needle, i) ==
    IF i + Len(needle) > Len(hay) THEN -1
    ELSE IF SubSeq(hay, i + 1, i + Len(needle)) = needle THEN i
    ELSE FindFrom(hay, needle, i + 1)

\* hay.find(needle): 0-based index of the first occurrence, -1 when absent
Find(hay, needle) == FindFrom(hay, needle, 0)

\* needle in hay
Contains(hay, needle) == Find(hay, needle) # -1

\* The characters of the model are those of Latin-1 (U+0000 to U+00FF): the
\* letters str.lower() changes among them, and what it makes of each
UpperLetters == "ABCDEFGHIJKLMNOPQRSTUVWXYZ" \o "ÀÁÂÃÄÅÆÇÈÉÊËÌÍÎÏÐÑÒÓÔÕÖØÙÚÛÜÝÞ"
LowerLetters == "abcdefghijklmnopqrstuvwxyz" \o "àáâãäåæçèéêëìíîïðñòóôõöøùúûüýþ"

\* the lower-case letter of each upper-case letter
LowerOf == [c \in {Char(UpperLetters, i) : i \in 1..Len(UpperLetters)} |->
               Char(LowerLetters, Find(UpperLetters, c) + 1)]

LowerChar(c) == IF c \in DOMAIN LowerOf THEN LowerOf[c] ELSE c

RECURSIVE Lower(_)
\* s.lower()
Lower(s) == IF s = "" THEN "" ELSE LowerChar(Char(s, 1)) \o Lower(SubSeq(s, 2, Len(s)))

\* the characters for which str.isspace() holds: tab, newline, form feed, carriage
\* return and space, then U+000B, U+001C to U+001F, U+0085 and U+00A0
Whitespace == "\t\n\f\r " \o " "

\* the characters \s matches and str.strip() removes
IsSpace(c) == c \in {Char(Whitespace, i) : i \in 1..Len(Whitespace)}

RECURSIVE LStrip(_)
LStrip(s) == IF s # "" /\ IsSpace(Char(s, 1)) THEN LStrip(SubSeq(s, 2, Len(s))) ELSE s

RECURSIVE RStrip(_)
RStrip(s) == IF s # "" /\ IsSpace(Char(s, Len(s))) THEN RStrip(SubSeq(s, 1, Len(s) - 1)) ELSE s

\* s.strip()
Strip(s) == RStrip(LStrip(s))

Digits == "0123456789"
DigitOf == [c \in {Char(Digits, i) : i \in 1..10} |-> Find(Digits, c)]
IsDigit(c) == c \in DOMAIN DigitOf
DigitVal(c) == DigitOf[c]

RECURSIVE AllDigits(_)
AllDigits(s) == s = "" \/ (IsDigit(Char(s, 1)) /\ AllDigits(SubSeq(s, 2, Len(s))))

RECURSIVE ToInt(_)
\* int(s) for a non-empty string of decimal digits
ToInt(s) == IF s = "" THEN 0 ELSE 10 * ToInt(SubSeq(s, 1, Len(s) - 1)) + DigitVal(Char(s, Len(s)))

\* f"{n:02d}", f"{n:04d}"
Pad2(n) == IF n < 10 THEN "0" \o ToString(n) ELSE ToString(n)
Pad4(n) == IF n < 10 THEN "000" \o ToString(n)
           ELSE IF n < 100 THEN "00" \o ToString(n)
           ELSE IF n < 1000 THEN "0" \o ToString(n)
           ELSE ToString(n)

\* f"{n:06d}"
Pad6(n) == IF n < 100 THEN "0000" \o Pad2(n)
           ELSE IF n < 10000 THEN "00" \o Pad4(n)
           ELSE IF n < 100000 THEN "0" \o ToString(n)
           ELSE ToString(n)

-----------------------------------------------------------------------------
(* utils.py: the category registry, in declaration order *)

BLOGS == "https://aws.amazon.com/blogs/"

\* one item of the dictionary: its key and the name, url and rss of its value
Category(slug, name, url, rss) == [slug |-> slug, name |-> name, url |-> url, rss |-> rss]

\* a registry in which the feed of 'compute' lost its final slash
AWS_BLOG_CATEGORIES_slip ==
    << Category("aws", "AWS News Blog",
                "https://aws.amazon.com/blogs/aws/",
                "https://aws.amazon.com/blogs/aws/feed/"),
       Category("architecture", "AWS Architecture Blog",
                "https://aws.amazon.com/blogs/architecture/",
                "https://aws.amazon.com/blogs/architecture/feed/"),
       Category("compute", "AWS Compute Blog",
                "https://aws.amazon.com/blogs/compute/",
                "https://aws.amazon.com/blogs/compute/feed"),
       Category("containers", "Containers",
                "https://aws.amazon.com/blogs/containers/",
                "https://aws.amazon.com/blogs/containers/feed/"),
       Category("database", "Database",
                "https://aws.amazon.com/blogs/database/",
                "https://aws.amazon.com/blogs/database/feed/"),
       Category("developer", "AWS Developer Tools Blog",
                "https://aws.amazon.com/blogs/developer/",
                "https://aws.amazon.com/blogs/developer/feed/"),
       Category("devops", "AWS DevOps Blog",
                "https://aws.amazon.com/blogs/devops/",
                "https://aws.amazon.com/blogs/devops/feed/"),
       Category("machine-learning", "AWS Machine Learning Blog",
                "https://aws.amazon.com/blogs/machine-learning/",
                "https://aws.amazon.com/blogs/machine-learning/feed/"),
       Category("networking-and-content-delivery", "Networking & Content Delivery",
                "https://aws.amazon.com/blogs/networking-and-content-delivery/",
                "https://aws.amazon.com/blogs/networking-and-content-delivery/feed/"),
       Category("security", "AWS Security Blog",
                "https://aws.amazon.com/blogs/security/",
                "https://aws.amazon.com/blogs/security/feed/"),
       Category("storage", "AWS Storage Blog",
                "https://aws.amazon.com/blogs/storage/",
                "https://aws.amazon.com/blogs/storage/feed/") >>

\* lines 31-87
AWS_BLOG_CATEGORIES ==
    << Category("aws", "AWS News Blog",
                "https://aws.amazon.com/blogs/aws/",
                "https://aws.amazon.com/blogs/aws/feed/"),
       Category("architecture", "AWS Architecture Blog",
                "https://aws.amazon.com/blogs/architecture/",
                "https://aws.amazon.com/blogs/architecture/feed/"),
       Category("compute", "AWS Compute Blog",
                "https://aws.amazon.com/blogs/compute/",
                "https://aws.amazon.com/blogs/compute/feed/"),
       Category("containers", "Containers",
                "https://aws.amazon.com/blogs/containers/",
                "https://aws.amazon.com/blogs/containers/feed/"),
       Category("database", "Database",
                "https://aws.amazon.com/blogs/database/",
                "https://aws.amazon.com/blogs/database/feed/"),
       Category("developer", "AWS Developer Tools Blog",
                "https://aws.amazon.com/blogs/developer/",
                "https://aws.amazon.com/blogs/developer/feed/"),
       Category("devops", "AWS DevOps Blog",
                "https://aws.amazon.com/blogs/devops/",
                "https://aws.amazon.com/blogs/devops/feed/"),
       Category("machine-learning", "AWS Machine Learning Blog",
                "https://aws.amazon.com/blogs/machine-learning/",
                "https://aws.amazon.com/blogs/machine-learning/feed/"),
       Category("networking-and-content-delivery", "Networking & Content Delivery",
                "https://aws.amazon.com/blogs/networking-and-content-delivery/",
                "https://aws.amazon.com/blogs/networking-and-content-delivery/feed/"),
       Category("security", "AWS Security Blog",
                "https://aws.amazon.com/blogs/security/",
                "https://aws.amazon.com/blogs/security/feed/"),
       Category("storage", "AWS Storage Blog",
                "https://aws.amazon.com/blogs/storage/",
                "https://aws.amazon.com/blogs/storage/feed/") >>

\* key in AWS_BLOG_CATEGORIES
InRegistry(key) == \E i \in DOMAIN AWS_BLOG_CATEGORIES : AWS_BLOG_CATEGORIES[i].slug = key

\* the identity of the module-level dict AWS_BLOG_CATEGORIES
RegistryId == 0

\* the objects that exist when the modules are loaded (utils.py:31)
ModuleObjects == [k \in {RegistryId} |-> AWS_BLOG_CATEGORIES]

\* AWS_BLOG_CATEGORIES[key]
Registry(key) ==
    AWS_BLOG_CATEGORIES[CHOOSE i \in DOMAIN AWS_BLOG_CATEGORIES : AWS_BLOG_CATEGORIES[i].slug = key]

-----------------------------------------------------------------------------
(* utils.py: parse_date_string.  datetime.strptime compiles a format into  *)
(* a regular expression (whitespace becomes \s+, letters match in either   *)
(* case) that must match the whole string; the fields found must then     *)
(* form a valid datetime, or ValueError is raised.                         *)

formats ==
    << <<"%Y", "-", "%m", "-", "%d", "T", "%H", ":", "%M", ":", "%S", "%z">>,
       <<"%Y", "-", "%m", "-", "%d", " ", "%H", ":", "%M", ":", "%S">>,
       <<"%Y", "-", "%m", "-", "%d">>,
       <<"%B", " ", "%d", ",", " ", "%Y">>,
       <<"%b", " ", "%d", ",", " ", "%Y">>,
       <<"%d", " ", "%B", " ", "%Y">>,
       <<"%d", " ", "%b", " ", "%Y">> >>

MonthNames ==
    << "january", "february", "march", "april", "may", "june", "july",
       "august", "september", "october", "november", "december" >>

MonthAbbrs ==
    << "jan", "feb", "mar", "apr", "may", "jun", "jul", "aug", "sep", "oct", "nov", "dec" >>

\* the interpreters the server may run on (the package pins none): the pattern of
\* %H is 2[0-3]|[0-1]\d|\d in CPython 3.9 to 3.13.0 and 2[0-3]|[0-1]\d|\d| \d in
\* CPython 3.13.13; the patterns of the other directives are the same in all
Interpreters == {"3.11.7", "3.13.13"}

\* the interpreters whose %H accepts a blank and a digit
BlankHour == {"3.13.13"}

\* one of the interpreters, whichever: what a specification runs on when none of
\* the dates of its requests writes an hour with a blank, the handlers doing
\* the same on each interpreter then
OneInterpreter == CHOOSE p \in Interpreters : TRUE

\* the lexeme lengths a numeric directive tries, in the order of its alternatives
DirectiveLengths(d) == IF d = "%Y" THEN <<4>> ELSE <<2, 1>>

\* does the lexeme match one alternative of the directive's pattern
DirectiveAccepts(d, lex) ==
    LET a == Char(lex, 1)
        b == Char(lex, 2)
        n == ToInt(lex)
    IN  CASE d = "%Y" -> AllDigits(lex)
          [] d = "%m" -> AllDigits(lex) /\ n >= 1 /\ n <= 12
          [] d = "%d" -> \/ AllDigits(lex) /\ n >= 1 /\ n <= 31
                         \/ Len(lex) = 2 /\ a = " " /\ IsDigit(b) /\ b # "0"
          [] d = "%H" -> \/ AllDigits(lex) /\ n <= 23
                         \/ python \in BlankHour /\ Len(lex) = 2 /\ a = " " /\ IsDigit(b)
          [] d = "%M" -> AllDigits(lex) /\ n <= 59
          [] d = "%S" -> AllDigits(lex) /\ n <= 61
          [] OTHER -> FALSE

DirectiveValue(lex) == ToInt(LStrip(lex))

\* the field of the parse a directive sets
FieldOf(d) ==
    CASE d = "%Y" -> "Y" [] d = "%m" -> "m" [] d = "%d" -> "d"
      [] d = "%H" -> "H" [] d = "%M" -> "M" [] d = "%S" -> "S"
      [] d \in {"%B", "%b"} -> "m" [] OTHER -> "z"

\* is s[p..p+1] the two digits [0-5]\d
IsSixtieth(s, p) ==
    p + 1 <= Len(s) /\ Char(s, p) \in {"0", "1", "2", "3", "4", "5"} /\ IsDigit(Char(s, p + 1))

RECURSIVE DigitRun(_, _, _)
\* \d{1,n} at position p of s: the number of digits taken
DigitRun(s, p, n) ==
    IF n > 0 /\ p <= Len(s) /\ IsDigit(Char(s, p)) THEN 1 + DigitRun(s, p + 1, n - 1) ELSE 0

\* the lexeme the pattern of %z, [+-]\d\d:?[0-5]\d(:?[0-5]\d(\.\d{1,6})?)?|Z, takes at
\* position p of s: its length, 0 when the pattern does not match
OffsetLength(s, p) ==
    LET c3 == IF p + 3 <= Len(s) /\ Char(s, p + 3) = ":" THEN 1 ELSE 0
        q == p + 3 + c3                         \* the minutes
        c5 == IF q + 2 <= Len(s) /\ Char(s, q + 2) = ":" THEN 1 ELSE 0
        r == q + 2 + c5                         \* the seconds
        f == IF r + 2 <= Len(s) /\ Char(s, r + 2) = "." THEN DigitRun(s, r + 3, 6) ELSE 0
    IN  IF p > Len(s) THEN 0
        ELSE IF Char(s, p) = "Z" THEN 1
        ELSE IF ~(/\ Char(s, p) \in {"+", "-"}
                  /\ p + 2 <= Len(s) /\ IsDigit(Char(s, p + 1)) /\ IsDigit(Char(s, p + 2))
                  /\ IsSixtieth(s, q))
             THEN 0
        ELSE IF ~IsSixtieth(s, r) THEN q + 2 - p
        ELSE IF f = 0 THEN r + 2 - p
        ELSE r + 3 + f - p

\* the colons of the lexeme of an offset removed as _strptime removes them: the
\* one at z[3] and then the one at z[5]; None for "Inconsistent use of :"
OffsetDigits(z) ==
    IF Len(z) > 3 /\ Char(z, 4) = ":"
    THEN LET y == SubSeq(z, 1, 3) \o SubSeq(z, 5, Len(z))
         IN  IF Len(y) > 5
             THEN (IF Char(y, 6) # ":" THEN None
                   ELSE Some(SubSeq(y, 1, 5) \o SubSeq(y, 7, Len(y))))
             ELSE Some(y)
    ELSE Some(z)

\* the offset of the lexeme z as <<seconds, microseconds>>, both of the sign of
\* the lexeme; None when int() raises ValueError
OffsetValue(z) ==
    IF z = "Z" THEN Some(<<0, 0>>)
    ELSE LET y == OffsetDigits(z)
         IN  IF y = None THEN None
             ELSE LET d == Get(y)
                      sec == Slice(d, 5, 7)
                      rem == Slice(d, 8, Len(d))
                      sign == IF Char(d, 1) = "-" THEN -1 ELSE 1
                  IN  IF ~AllDigits(sec) THEN None
                      ELSE Some(<<sign * (3600 * ToInt(Slice(d, 1, 3)) + 60 * ToInt(Slice(d, 3, 5))
                                          + ToInt(sec)),
                                  sign * ToInt(rem \o SubSeq("000000", 1, 6 - Len(rem)))>>)

\* %z at position p of s: a tuple of 0 (the pattern does not match) or 1
\* <<length of the lexeme, its offset (None when the conversion raises)>>
ParseOffset(s, p) ==
    IF OffsetLength(s, p) = 0 THEN None
    ELSE Some(<<OffsetLength(s, p), OffsetValue(SubSeq(s, p, p + OffsetLength(s, p) - 1))>>)

RECURSIVE SpaceRun(_, _)
\* number of whitespace characters of s from position p on
SpaceRun(s, p) == IF p <= Len(s) /\ IsSpace(Char(s, p)) THEN 1 + SpaceRun(s, p + 1) ELSE 0

RECURSIVE MonthAt(_, _, _, _)
\* the month (1..12) whose name starts at position p of s, 0 when none does
MonthAt(names, k, s, p) ==
    IF k > Len(names) THEN 0
    ELSE IF Lower(SubSeq(s, Min(p, Len(s) + 1), Min(p + Len(names[k]) - 1, Len(s)))) = names[k]
         THEN k
         ELSE MonthAt(names, k + 1, s, p)

\* the first alternative of the pattern that matches: this one, else the next
OrElse(here, next) == IF IsSome(here) THEN here ELSE next

RECURSIVE Match(_, _, _, _, _)
RECURSIVE MatchLexeme(_, _, _, _, _, _)
RECURSIVE MatchLengths(_, _, _, _, _, _)
RECURSIVE MatchSpaces(_, _, _, _, _, _)
RECURSIVE MatchMonth(_, _, _, _, _, _, _)
RECURSIVE MatchOffset(_, _, _, _, _, _)

\* the numeric directive fmt[i] takes the lexeme lex at position p
MatchLexeme(fmt, i, s, p, acc, lex) ==
    IF DirectiveAccepts(fmt[i], lex)
    THEN Match(fmt, i + 1, s, p + Len(lex), [acc EXCEPT ![FieldOf(fmt[i])] = DirectiveValue(lex)])
    ELSE None

\* try the lexeme lengths ls of the numeric directive fmt[i] at position p
MatchLengths(fmt, i, s, p, acc, ls) ==
    IF ls = <<>> THEN None
    ELSE OrElse(IF p + Head(ls) - 1 <= Len(s)
                THEN MatchLexeme(fmt, i, s, p, acc, SubSeq(s, p, p + Head(ls) - 1))
                ELSE None,
                MatchLengths(fmt, i, s, p, acc, Tail(ls)))

\* \s+ : greedy, giving characters back until the rest matches
MatchSpaces(fmt, i, s, p, acc, n) ==
    IF n < 1 THEN None
    ELSE OrElse(Match(fmt, i + 1, s, p + n, acc), MatchSpaces(fmt, i, s, p, acc, n - 1))

\* %B, %b: m is the month whose name starts at position p, 0 when none does
MatchMonth(fmt, i, s, p, acc, names, m) ==
    IF m = 0 THEN None
    ELSE Match(fmt, i + 1, s, p + Len(names[m]), [acc EXCEPT !.m = m])

\* %z: z is the offset parsed at position p
MatchOffset(fmt, i, s, p, acc, z) ==
    IF IsSome(z) /\ IsSome(Get(z)[2])
    THEN Match(fmt, i + 1, s, p + Get(z)[1], [acc EXCEPT !.z = Get(z)[2]])
    ELSE None

\* match fmt[i..] against s[p..]; the fields found, or None
Match(fmt, i, s, p, acc) ==
    IF i > Len(fmt) THEN (IF p = Len(s) + 1 THEN Some(acc) ELSE None)
    ELSE CASE fmt[i] \in {"%Y", "%m", "%d", "%H", "%M", "%S"} ->
                MatchLengths(fmt, i, s, p, acc, DirectiveLengths(fmt[i]))
           [] fmt[i] = "%B" -> MatchMonth(fmt, i, s, p, acc, MonthNames, MonthAt(MonthNames, 1, s, p))
           [] fmt[i] = "%b" -> MatchMonth(fmt, i, s, p, acc, MonthAbbrs, MonthAt(MonthAbbrs, 1, s, p))
           [] fmt[i] = "%z" -> MatchOffset(fmt, i, s, p, acc, ParseOffset(s, p))
           [] fmt[i] = " " -> MatchSpaces(fmt, i, s, p, acc, SpaceRun(s, p))
           [] OTHER ->
                IF p <= Len(s) /\ Lower(Char(s, p)) = Lower(fmt[i])
                THEN Match(fmt, i + 1, s, p + 1, acc)
                ELSE None

IsLeap(y) == y % 4 = 0 /\ (y % 100 # 0 \/ y % 400 = 0)

DaysIn(y, m) ==
    IF m = 2 THEN (IF IsLeap(y) THEN 29 ELSE 28)
    ELSE IF m \in {4, 6, 9, 11} THEN 30 ELSE 31

\* the fields form a datetime (datetime's constructor, tzinfo's range)
ValidDateTime(f) ==
    /\ f.Y >= 1
    /\ f.d <= DaysIn(f.Y, f.m)
    /\ f.S <= 59
    /\ IsSome(f.z) => (Get(f.z)[1] > -86400 /\ Get(f.z)[1] < 86400)

\* the datetime of the fields matched, or None for ValueError
MakeDateTime(m) == IF IsSome(m) /\ ValidDateTime(Get(m)) THEN m ELSE None

\* datetime.strptime(s, fmt): the datetime, or None for ValueError
strptime(s, fmt) ==
    MakeDateTime(Match(fmt, 1, s, 1,
                       [Y |-> 1900, m |-> 1, d |-> 1, H |-> 0, M |-> 0, S |-> 0, z |-> None]))

\* a loop that gives up at the first format that does not parse
FirstFormat_give_up(s, k) ==
    IF k > Len(formats) THEN None ELSE strptime(s, formats[k])

RECURSIVE FirstFormat(_, _)
\* the loop over formats from the k-th on: the first that parses returns
FirstFormat(s, k) ==
    IF k > Len(formats) THEN None
    ELSE OrElse(strptime(s, formats[k]), FirstFormat(s, k + 1))

\* parse_date_string(date_str): Optional[datetime]
parse_date_string(date_str) ==
    IF date_str = "" THEN None ELSE FirstFormat(Strip(date_str), 1)

\* the UTC offset as str(datetime) writes it: the seconds and the microseconds
\* only when they are not zero
FormatOffset(z) ==
    LET a == IF z[1] < 0 THEN -z[1] ELSE z[1]
        u == IF z[2] < 0 THEN -z[2] ELSE z[2]
    IN  (IF z[1] < 0 \/ z[2] < 0 THEN "-" ELSE "+")
            \o Pad2(a \div 3600) \o ":" \o Pad2((a % 3600) \div 60)
            \o (IF a % 60 # 0 \/ u # 0 THEN ":" \o Pad2(a % 60) ELSE "")
            \o (IF u # 0 THEN "." \o Pad6(u) ELSE "")

\* str(datetime) as an f-string renders it
DateTimeStr(t) ==
    Pad4(t.Y) \o "-" \o Pad2(t.m) \o "-" \o Pad2(t.d) \o " "
        \o Pad2(t.H) \o ":" \o Pad2(t.M) \o ":" \o Pad2(t.S)
        \o (IF IsSome(t.z) THEN FormatOffset(Get(t.z)) ELSE "")

-----------------------------------------------------------------------------
(* parse_date_string on its own, on each interpreter: every date string     *)
(* made of a date part and                                                  *)
(* of what follows it                                                      *)

DateParts ==
    { "2025-10-28", "2025-02-30", "2025-1-5", "2024-02-29", "0000-01-01",
      "October 28, 2025", "Oct 28, 2025", "OCTOBER  28,\n2025", "May 5, 2024",
      "28 October 2025", "28 Oct 2025", "invalid-date", "" }

DateRests ==
    { "", " ", "T16:59:17-07:00", "T16:59:17Z", "T16:59:60+0530", "T24:00:00+00:00", " 01:02:03",
      "T16:59:17+05:30:15.5", "T16:59:17+0530:15", "t16:59:17-00:00:01",
      "T 1:02:03Z", "  1:02:03", "T 01:02:03Z" }

DateStrings == {a \o b : a \in DateParts, b \in DateRests}

DateInit ==
    /\ pc = "idle" /\ op = "none" /\ idx = 0
    /\ arg \in [date_str : DateStrings]
    /\ results = <<>> /\ shadow = <<>> /\ ret = <<>> /\ raised = FALSE
    /\ fetches = 0 /\ failures = 0 /\ collected = ""
    /\ called = <<>> /\ feed = None /\ answers = <<>>
    /\ other = NoRequest /\ heap = ModuleObjects
    /\ python \in Interpreters /\ unsorted = <<>>

\* parse_date_string(date_str) is called
ParseDate ==
    /\ pc = "idle"
    /\ ret' = parse_date_string(arg.date_str)
    /\ pc' = "done"
    /\ op' = "parse"
    /\ UNCHANGED <<arg, idx, results, shadow, raised, fetches, failures, collected, called, feed, answers,
                   other, heap, python, unsorted>>

SpecDate == DateInit /\ [][ParseDate]_vars

\* the formats that parse the stripped argument
Parsing == {k \in DOMAIN formats : IsSome(strptime(Strip(arg.date_str), formats[k]))}

\* a naive datetime at midnight
Midnight(Y, m, d) == Some([Y |-> Y, m |-> m, d |-> d, H |-> 0, M |-> 0, S |-> 0, z |-> None])

\* C16: parse_date_string returns, and never raises: a timestamp for
\* '2025-10-28T16:59:17-07:00', 'October 28, 2025', 'Oct 28, 2025' and
\* '2025-10-28', None for 'invalid-date' and for the empty string, and for every
\* argument what the first format of the list that parses it gives (None when no
\* format does)
C16_ParseDate ==
    (op = "parse" /\ pc = "done") =>
        /\ ~raised
        /\ ret = None \/ (Len(ret) = 1 /\ DOMAIN ret[1] = {"Y", "m", "d", "H", "M", "S", "z"})
        /\ arg.date_str = "2025-10-28T16:59:17-07:00" =>
              ret = Some([Y |-> 2025, m |-> 10, d |-> 28, H |-> 16, M |-> 59, S |-> 17,
                          z |-> Some(<<-25200, 0>>)])
        /\ arg.date_str \in {"October 28, 2025", "Oct 28, 2025", "2025-10-28"} =>
              ret = Midnight(2025, 10, 28)
        /\ arg.date_str \in {"invalid-date", ""} => ret = None
        /\ (arg.date_str = "" \/ Parsing = {}) => ret = None
        /\ (arg.date_str # "" /\ Parsing # {}) =>
              \E k \in Parsing :
                  /\ \A j \in Parsing : k <= j
                  /\ ret = strptime(Strip(arg.date_str), formats[k])

C16_Witness ==
    /\ op = "parse" /\ pc = "done" /\ arg.date_str = "May 5, 2024 "
    /\ Parsing = {4, 5} /\ ret = Midnight(2024, 5, 5)


-----------------------------------------------------------------------------
(* A fetched page, as the HTML collaborators present it to utils.py:       *)
(*   h1, title  soup.find('h1'), soup.find('title'): the element's text    *)
(*   authors    soup.select_one(s) for each author selector, in order      *)
(*   dates      soup.select_one(s) for each date selector, in order: the   *)
(*              element's datetime attribute and its text                  *)
(*   regions    md(str(soup.select_one(s))) for each content selector of   *)
(*              the document stripped of script/style/nav/header/footer    *)
(*   whole      md(str(soup)) of that stripped document                    *)
(*   md_raises  the conversion raises on this document                     *)
(*   html       the response text                                          *)

author_selectors == <<".author", ".post-author", ".entry-author", "[rel=\"author\"]", ".byline">>
date_selectors == <<"time[datetime]", ".published", ".post-date", ".entry-date">>
content_selectors ==
    <<"article", ".post-content", ".entry-content", ".blog-post-content", "main", "#main-content">>

NoMatches(n) == [i \in 1..n |-> None]

\* the page of an empty document
EmptyPage ==
    [h1 |-> None, title |-> None, authors |-> NoMatches(5), dates |-> NoMatches(4),
     regions |-> NoMatches(6), whole |-> "", md_raises |-> FALSE, html |-> ""]

RECURSIVE FirstSome(_, _)
\* index of the first element of the sequence that is not None, 0 when all are
FirstSome(seq, k) ==
    IF k > Len(seq) THEN 0 ELSE IF IsSome(seq[k]) THEN k ELSE FirstSome(seq, k + 1)

RECURSIVE CountNewlines(_, _, _)
\* number of newlines among the n characters of s from position p on
CountNewlines(s, p, n) ==
    IF n = 0 THEN 0
    ELSE (IF Char(s, p) = "\n" THEN 1 ELSE 0) + CountNewlines(s, p + 1, n - 1)

RECURSIVE LastNewline(_, _)
\* position of the last newline of s at or before position q
LastNewline(s, q) == IF Char(s, q) = "\n" THEN q ELSE LastNewline(s, q - 1)

RECURSIVE CollapseFrom(_, _)
\* re.sub(r'\n\s*\n\s*\n', '\n\n', s) from position p on: a match starts at a
\* newline whose whitespace run holds three newlines and ends at the run's last one
CollapseFrom(s, p) ==
    IF p > Len(s) THEN ""
    ELSE LET n == SpaceRun(s, p)
         IN  IF Char(s, p) = "\n" /\ CountNewlines(s, p, n) >= 3
             THEN "\n\n" \o CollapseFrom(s, LastNewline(s, p + n - 1) + 1)
             ELSE Char(s, p) \o CollapseFrom(s, p + 1)

RECURSIVE DedentFrom(_, _)
\* re.sub(r'^\s+', '', s, flags=re.MULTILINE) from position p on: at the start of
\* the string and after every newline the whole whitespace run is deleted
DedentFrom(s, p) ==
    IF p > Len(s) THEN ""
    ELSE LET n == SpaceRun(s, p)
         IN  IF (p = 1 \/ Char(s, p - 1) = "\n") /\ n >= 1
             THEN DedentFrom(s, p + n)
             ELSE Char(s, p) \o DedentFrom(s, p + 1)

RECURSIVE LastSome(_, _)
\* index of the last element of the sequence that is not None, 0 when all are
LastSome(seq, k) ==
    IF k = 0 THEN 0 ELSE IF IsSome(seq[k]) THEN k ELSE LastSome(seq, k - 1)

\* a loop over the selectors without its break: the last match is kept
clean_html_content_last_match(page) ==
    LET k == LastSome(page.regions, Len(page.regions))
        markdown_content == IF k = 0 THEN page.whole ELSE Get(page.regions[k])
    IN  IF page.md_raises
        THEN page.html
        ELSE Strip(DedentFrom(CollapseFrom(markdown_content, 1), 1))

\* a clean-up whose second substitution lacks re.MULTILINE: only the start of the
\* text is dedented
clean_html_content_first_line(page) ==
    LET k == FirstSome(page.regions, 1)
        markdown_content == IF k = 0 THEN page.whole ELSE Get(page.regions[k])
    IN  IF page.md_raises
        THEN page.html
        ELSE Strip(LStrip(CollapseFrom(markdown_content, 1)))

\* utils.py clean_html_content
clean_html_content(page) ==
    LET k == FirstSome(page.regions, 1)
        markdown_content == IF k = 0 THEN page.whole ELSE Get(page.regions[k])
    IN  IF page.md_raises
        THEN page.html
        ELSE Strip(DedentFrom(CollapseFrom(markdown_content, 1), 1))

\* line 170: date_elem.get('datetime') or date_elem.get_text().strip()
date_str_of(date_elem) ==
    IF IsSome(date_elem.datetime) /\ Get(date_elem.datetime) # ""
    THEN Get(date_elem.datetime)
    ELSE Strip(date_elem.text)

\* utils.py extract_blog_metadata: a dict, each key absent (None) or present
extract_blog_metadata(page, url) ==
    LET title == IF IsSome(page.h1) THEN Some(Strip(Get(page.h1)))
                 ELSE IF IsSome(page.title) THEN Some(Strip(Get(page.title)))
                 ELSE None
        a == FirstSome(page.authors, 1)
        author == IF a = 0 THEN None ELSE Some(Strip(Get(page.authors[a])))
        d == FirstSome(page.dates, 1)
        \* lines 173-174: the key is set to whatever parse_date_string returns, and
        \* the loop ends (parse_date_string does not raise)
        published_date == IF d = 0 THEN None
                          ELSE Some(parse_date_string(date_str_of(Get(page.dates[d]))))
        at == Find(url, "/blogs/")
        rest == SubSeq(url, at + Len("/blogs/") + 1, Len(url))
        slash == Find(rest, "/")
        category_part == IF slash = -1 THEN rest ELSE SubSeq(rest, 1, slash)
        category == IF at # -1 /\ InRegistry(category_part)
                    THEN Some(Registry(category_part).name)
                    ELSE None
    IN  [url |-> url, title |-> title, author |-> author,
         published_date |-> published_date, category |-> category]

\* httpx Response.raise_for_status on a response whose status is not 2xx and
\* that names no redirect location: str() of the HTTPStatusError it raises,
\* status being the status code and reason phrase and url the URL requested, one
\* that httpx leaves as it is written
raise_for_status(status, url) ==
    (IF Char(status, 1) = "1" THEN "Informational response"
     ELSE IF Char(status, 1) = "3" THEN "Redirect response"
     ELSE IF Char(status, 1) = "4" THEN "Client error"
     ELSE IF Char(status, 1) = "5" THEN "Server error"
     ELSE "Invalid status code")
    \o " '" \o status \o "' for url '" \o url \o "'\n"
    \o "For more information check: https://developer.mozilla.org/en-US/docs/Web/HTTP/Status/"
    \o Slice(status, 0, 3)

\* str(e) of the exception the retrieval of url ends with: that of
\* raise_for_status (utils.py:223, server.py:401, 444), or that of the exception
\* the transport raised
str_e(resp, url) ==
    IF resp.kind = "HTTPStatusError" THEN raise_for_status(resp.status, url) ELSE resp.msg

\* a fetch_url_content that swallows the failure and hands back an empty document
fetch_url_content_swallow(url, resp) ==
    IF resp.kind = "ok" THEN Ok(resp.page) ELSE Ok(EmptyPage)

\* utils.py fetch_url_content: the response text, or the transport's exception re-raised
fetch_url_content(url, resp) ==
    IF resp.kind = "ok" THEN Ok(resp.page) ELSE Raise(resp.kind, str_e(resp, url))

-----------------------------------------------------------------------------
(* server.py read_blog_post *)

NoMoreContent == "No more content available."
ErrorPrefix == "Error reading blog post: "
MarkerHead == "\n\n[Content truncated. Use start_index="
MarkerTail == " to continue reading.]"
InvalidUrlMessage == "URL must be from aws.amazon.com/blogs domain"

\* lines 153-161: the metadata header
metadata_header(metadata, url) ==
    "# " \o (IF IsSome(metadata.title) THEN Get(metadata.title) ELSE "AWS Blog Post") \o "\n\n"
    \o (IF IsSome(metadata.author) /\ Get(metadata.author) # ""
        THEN "**Author:** " \o Get(metadata.author) \o "\n" ELSE "")
    \o (IF IsSome(metadata.published_date) /\ IsSome(Get(metadata.published_date))
        THEN "**Published:** " \o DateTimeStr(Get(Get(metadata.published_date))) \o "\n" ELSE "")
    \o (IF IsSome(metadata.category) /\ Get(metadata.category) # ""
        THEN "**Category:** " \o Get(metadata.category) \o "\n" ELSE "")
    \o "**URL:** " \o url \o "\n\n---\n\n"

\* line 163
full_content(page, url) ==
    metadata_header(extract_blog_metadata(page, url), url) \o clean_html_content(page)

\* a paginate whose marker names the index after the window's end
paginate_marker_off(text, start_index, max_length) ==
    IF start_index >= Len(text)
    THEN NoMoreContent
    ELSE LET end_index == start_index + max_length
             result == Slice(text, start_index, end_index)
         IN  IF end_index < Len(text)
             THEN result \o MarkerHead \o ToString(end_index + 1) \o MarkerTail
             ELSE result

\* a paginate that tests start_index > len(full_content)
paginate_gt(text, start_index, max_length) ==
    IF start_index > Len(text)
    THEN NoMoreContent
    ELSE LET end_index == start_index + max_length
             result == Slice(text, start_index, end_index)
         IN  IF end_index < Len(text)
             THEN result \o MarkerHead \o ToString(end_index) \o MarkerTail
             ELSE result

\* a paginate that tests end_index <= len(full_content)
paginate_le(text, start_index, max_length) ==
    IF start_index >= Len(text)
    THEN NoMoreContent
    ELSE LET end_index == start_index + max_length
             result == Slice(text, start_index, end_index)
         IN  IF end_index <= Len(text)
             THEN result \o MarkerHead \o ToString(end_index) \o MarkerTail
             ELSE result

\* lines 165-175: the window of the text and the continuation marker
paginate(text, start_index, max_length) ==
    IF start_index >= Len(text)
    THEN NoMoreContent
    ELSE LET end_index == start_index + max_length
             result == Slice(text, start_index, end_index)
         IN  IF end_index < Len(text)
             THEN result \o MarkerHead \o ToString(end_index) \o MarkerTail
             ELSE result

\* a body that validates the URL only after the page was fetched
read_blog_post_try_late(url, resp, max_length, start_index) ==
    LET html_content == fetch_url_content(url, resp)
    IN  IF html_content.exc
        THEN [out |-> html_content, fetches |-> 1]
        ELSE IF ~StartsWith(url, BLOGS)
        THEN [out |-> Raise("ValueError", InvalidUrlMessage), fetches |-> 1]
        ELSE [out |-> Ok(paginate(full_content(html_content.val, url), start_index, max_length)),
              fetches |-> 1]

\* a body that paginates the markdown alone and puts the header before the chunk
read_blog_post_try_header_apart(url, resp, max_length, start_index) ==
    IF ~StartsWith(url, BLOGS)
    THEN [out |-> Raise("ValueError", InvalidUrlMessage), fetches |-> 0]
    ELSE LET html_content == fetch_url_content(url, resp)
         IN  IF html_content.exc
             THEN [out |-> html_content, fetches |-> 1]
             ELSE [out |-> Ok(metadata_header(extract_blog_metadata(html_content.val, url), url)
                              \o paginate(clean_html_content(html_content.val),
                                          start_index, max_length)),
                   fetches |-> 1]

\* lines 137-175, the body of the try: the value returned or the exception raised,
\* and the number of retrievals started
read_blog_post_try(url, resp, max_length, start_index) ==
    IF ~StartsWith(url, BLOGS)
    THEN [out |-> Raise("ValueError", InvalidUrlMessage), fetches |-> 0]
    ELSE LET html_content == fetch_url_content(url, resp)
         IN  IF html_content.exc
             THEN [out |-> html_content, fetches |-> 1]
             ELSE [out |-> Ok(paginate(full_content(html_content.val, url), start_index, max_length)),
                   fetches |-> 1]

\* an except clause that names ValueError only
read_blog_post_except_narrow(t) ==
    [ret |-> IF t.out.exc /\ Catches("ValueError", t.out.type) THEN ErrorPrefix \o t.out.msg
             ELSE IF t.out.exc THEN "" ELSE t.out.val,
     raised |-> t.out.exc /\ ~Catches("ValueError", t.out.type),
     fetches |-> t.fetches]

\* lines 177-179: except Exception turns the exception into the returned string
read_blog_post_except(t) ==
    [ret |-> IF t.out.exc /\ Catches("Exception", t.out.type) THEN ErrorPrefix \o t.out.msg
             ELSE IF t.out.exc THEN "" ELSE t.out.val,
     raised |-> t.out.exc /\ ~Catches("Exception", t.out.type),
     fetches |-> t.fetches]

\* lines 136-179: what the tool returns, whether an exception leaves it, and the
\* number of retrievals started
read_blog_post(url, resp, max_length, start_index) ==
    read_blog_post_except(read_blog_post_try(url, resp, max_length, start_index))


-----------------------------------------------------------------------------
(* Inputs of read_blog_post *)

MaxChunk == 8           \* max_length ranges over 1..MaxChunk and the default
MaxStart == 175         \* start_index ranges over 0..MaxStart
DefaultMaxLength == 5000

\* <h1>, .post-author, time[datetime] and an <article>
PostPage ==
    [EmptyPage EXCEPT
        !.h1 = Some(" Intro "),
        !.title = Some("Intro | AWS"),
        !.authors = [NoMatches(5) EXCEPT ![2] = Some("Ann")],
        !.dates = [NoMatches(4) EXCEPT ![1] = Some([datetime |-> Some("2025-10-28T16:59:17-07:00"),
                                                     text |-> "28 OCT 2025"])],
        !.regions = [NoMatches(6) EXCEPT ![1] = Some("\n# Intro\n\n\n \nHello  [x](y)\n\n  Bye \n\n")],
        !.whole = "menu\n\n# Intro\n\nHello\n"]

\* only a <title>, a .entry-date whose text does not parse, and a <main>
TitlePage ==
    [EmptyPage EXCEPT
        !.title = Some("T"),
        !.dates = [NoMatches(4) EXCEPT ![4] = Some([datetime |-> None, text |-> "yesterday"])],
        !.regions = [NoMatches(6) EXCEPT ![5] = Some("a1\n\n\nb2")],
        !.whole = "zz"]

\* no selector matches and the conversion raises: the response text is the body
RawPage == [EmptyPage EXCEPT !.md_raises = TRUE, !.html = "<p> hi</p>\n"]

\* a .published whose text does not parse and a .post-date whose text does
DatesPage ==
    [EmptyPage EXCEPT
        !.title = Some("D"),
        !.dates = [NoMatches(4) EXCEPT ![2] = Some([datetime |-> None, text |-> "yesterday"]),
                                       ![3] = Some([datetime |-> None, text |-> " October 28, 2025 "])],
        !.whole = "w"]

Pages == {EmptyPage, PostPage, TitlePage, RawPage, DatesPage}

Urls ==
    { "https://aws.amazon.com/blogs/aws/p/",
      "https://aws.amazon.com/blogs/x",
      "http://aws.amazon.com/blogs/aws/p/",
      "https://example.com/https://aws.amazon.com/blogs/aws/" }

\* what the retrieval ends with: the page of a response of status 200, a
\* response of another status, for which raise_for_status raises, or an exception
\* of the transport whose str() is msg (kind is "ok" or the class of the exception)
PageOk(p) == [kind |-> "ok", page |-> p, msg |-> "", status |-> "200 OK"]
PageFailures ==
    { [kind |-> "TimeoutException", page |-> EmptyPage, msg |-> "", status |-> ""],
      [kind |-> "HTTPStatusError", page |-> EmptyPage, msg |-> "", status |-> "404 Not Found"],
      [kind |-> "ConnectError", page |-> EmptyPage, msg |-> "All connection attempts failed",
       status |-> ""] }
PageResponses == {PageOk(p) : p \in Pages} \cup PageFailures

ChunkSizes == (1..MaxChunk) \cup {DefaultMaxLength}

-----------------------------------------------------------------------------
(* The reader: a caller that follows the continuation markers *)

RECURSIVE TrailingDigits(_)
TrailingDigits(s) ==
    IF s # "" /\ IsDigit(Char(s, Len(s))) THEN 1 + TrailingDigits(SubSeq(s, 1, Len(s) - 1)) ELSE 0

\* the marker a chunk ends with: whether there is one, the chunk without it, and
\* the start_index it names
ParseMarker(chunk) ==
    LET front == SubSeq(chunk, 1, Len(chunk) - Len(MarkerTail))
        nd == TrailingDigits(front)
        head == SubSeq(front, 1, Len(front) - nd)
        found == EndsWith(chunk, MarkerTail) /\ nd >= 1 /\ EndsWith(head, MarkerHead)
    IN  IF found
        THEN [found |-> TRUE,
              body |-> SubSeq(head, 1, Len(head) - Len(MarkerHead)),
              next |-> ToInt(SubSeq(front, Len(front) - nd + 1, Len(front)))]
        ELSE [found |-> FALSE, body |-> chunk, next |-> 0]

\* the arguments of a call and what the transport will answer
ReadArgs ==
    [url : Urls, resp : PageResponses, max_length : ChunkSizes, start_index : 0..MaxStart]

\* a call of read_blog_post is about to be made
ReadInit ==
    /\ pc = "idle" /\ op = "none" /\ arg \in ReadArgs /\ idx = 0
    /\ results = <<>> /\ shadow = <<>> /\ ret = "" /\ raised = FALSE
    /\ fetches = 0 /\ failures = 0 /\ collected = ""
    /\ called = <<>> /\ feed = None /\ answers = <<>>
    /\ other = NoRequest /\ heap = ModuleObjects
    /\ python = OneInterpreter /\ unsorted = <<>>

\* the tool is called: with a URL of the blog it awaits the page (line 144), and
\* with any other it returns the error without a retrieval (lines 139-141)
ReadCall ==
    /\ pc = "idle"
    /\ op' = "read"
    /\ IF StartsWith(arg.url, BLOGS)
       THEN /\ pc' = "fetching"
            /\ fetches' = 1
            /\ UNCHANGED <<ret, raised>>
       ELSE \E r \in {read_blog_post(arg.url, arg.resp, arg.max_length, arg.start_index)} :
               /\ pc' = "done"
               /\ ret' = r.ret
               /\ raised' = r.raised
               /\ fetches' = r.fetches
    /\ UNCHANGED <<arg, idx, results, shadow, failures, collected, called, feed, answers, other,
                   heap, python, unsorted>>

\* the page awaited answers and the tool returns
ReadAt ==
    /\ pc = "fetching"
    /\ op = "read"
    /\ \E r \in {read_blog_post(arg.url, arg.resp, arg.max_length, arg.start_index)} :
          /\ ret' = r.ret
          /\ raised' = r.raised
    /\ failures' = IF arg.resp.kind # "ok" THEN 1 ELSE 0
    /\ pc' = "done"
    /\ UNCHANGED <<op, arg, idx, results, shadow, fetches, collected, called, feed, answers, other,
                   heap, python, unsorted>>

\* the caller starts reading a post from start_index = 0
OpenPost ==
    /\ pc = "idle"
    /\ arg.start_index = 0
    /\ arg.resp.kind = "ok"
    /\ pc' = "reading"
    /\ op' = "session"
    /\ UNCHANGED <<arg, idx, results, shadow, ret, raised, fetches, failures, collected, called, feed, answers,
                   other, heap, python, unsorted>>

\* the caller's call returned r after the transport answered resp (or, failed
\* being TRUE, answered an error or was not asked): the caller keeps the chunk's
\* body and follows its marker
ChunkReturned(r, m, failed) ==
    /\ ret' = r.ret
    /\ raised' = r.raised
    /\ idx' = idx + 1
    /\ collected' = IF failed THEN collected ELSE collected \o m.body
    /\ arg' = IF ~failed /\ m.found THEN [arg EXCEPT !.start_index = m.next] ELSE arg
    /\ pc' = IF failed THEN "failed" ELSE IF m.found THEN "reading" ELSE "done"

\* the next call of the session: with a URL of the blog the call awaits the page,
\* with any other it returns the error at once
ChunkCall ==
    /\ pc = "reading"
    /\ IF StartsWith(arg.url, BLOGS)
       THEN /\ pc' = "awaiting"
            /\ fetches' = fetches + 1
            /\ UNCHANGED <<arg, idx, ret, raised, collected>>
       ELSE /\ \E r \in {read_blog_post(arg.url, arg.resp, arg.max_length, arg.start_index)} :
               \E m \in {ParseMarker(r.ret)} : ChunkReturned(r, m, TRUE)
            /\ UNCHANGED fetches
    /\ UNCHANGED <<op, results, shadow, failures, called, feed, answers, other, heap, python, unsorted>>

\* the page awaited is served again, or the retrieval fails, and the call returns
ReadChunk ==
    /\ pc = "awaiting"
    /\ \E resp \in {arg.resp} \cup PageFailures :
          /\ \E r \in {read_blog_post(arg.url, resp, arg.max_length, arg.start_index)} :
             \E m \in {ParseMarker(r.ret)} : ChunkReturned(r, m, resp.kind # "ok")
          /\ failures' = IF resp.kind # "ok" THEN failures + 1 ELSE failures
    /\ UNCHANGED <<op, results, shadow, fetches, called, feed, answers, other, heap, python, unsorted>>

ReadNext == ReadCall \/ ReadAt \/ OpenPost \/ ChunkCall \/ ReadChunk

SpecRead == ReadInit /\ [][ReadNext]_vars


-----------------------------------------------------------------------------
(* Claims about read_blog_post, checked under SpecRead *)

ReadOk == op = "read" /\ pc = "done" /\ StartsWith(arg.url, BLOGS) /\ arg.resp.kind = "ok"
FullText == full_content(arg.resp.page, arg.url)

\* C1: following the continuation markers from start_index = 0, the bodies of the
\* chunks read so far are exactly the first start_index characters of the full
\* text (the n-th call starts at n * max_length, inside the text), and when a
\* chunk without a marker ends the session the bodies are the full text
C1_RoundTrip ==
    op = "session" =>
        /\ pc = "reading" =>
              /\ collected = Slice(FullText, 0, arg.start_index)
              /\ arg.start_index = idx * arg.max_length
              /\ arg.start_index < Len(FullText)
        /\ pc = "done" => collected = FullText /\ ~ParseMarker(ret).found

C1_Witness ==
    op = "session" /\ pc = "done" /\ idx >= 3 /\ Len(collected) > 100 /\ arg.start_index >= 100

\* C2: with a valid URL and a page that was retrieved, start_index >= len(full
\* text) returns exactly the sentinel: no error string, no continuation marker
C2_Sentinel ==
    (ReadOk /\ arg.start_index >= Len(FullText)) =>
        /\ ret = NoMoreContent
        /\ ~StartsWith(ret, ErrorPrefix)
        /\ ~ParseMarker(ret).found

C2_Witness == ReadOk /\ arg.start_index = Len(FullText) /\ arg.max_length = 1

\* C3: for start_index < len(full text) the chunk is the window of the text, with
\* a marker exactly when start_index + max_length < len(full text), and the marker
\* names start_index + max_length
C3_Marker ==
    (ReadOk /\ arg.start_index < Len(FullText)) =>
        LET m == ParseMarker(ret)
            end_index == arg.start_index + arg.max_length
        IN  /\ m.found <=> end_index < Len(FullText)
            /\ m.found => m.next = end_index
            /\ m.body = Slice(FullText, arg.start_index, end_index)

C3_Witness ==
    /\ ReadOk /\ arg.start_index > 0
    /\ arg.start_index + arg.max_length = Len(FullText)
    /\ ~ParseMarker(ret).found

\* the header and the markdown of the page of the call
Header == metadata_header(extract_blog_metadata(arg.resp.page, arg.url), arg.url)
Markdown == clean_html_content(arg.resp.page)

\* C15: the header is paginated with the body: a call at start_index = 0 returns
\* a chunk that begins with the header (its title line first, "# " and the title),
\* a window that lies inside the header is max_length characters of the header,
\* followed by the marker naming start_index + max_length when text is left after
\* it, and a window that
\* starts after the header is the window of the markdown moved by the header's
\* length
C15_HeaderPaginated ==
    ReadOk =>
        /\ StartsWith(Header, "# ")
        /\ arg.start_index = 0 =>
              ParseMarker(ret).body = Slice(Header \o Markdown, 0, arg.max_length)
        /\ arg.start_index + arg.max_length <= Len(Header) =>
              /\ ParseMarker(ret).body = Slice(Header, arg.start_index, arg.start_index + arg.max_length)
              /\ Len(ParseMarker(ret).body) = arg.max_length
              /\ ParseMarker(ret).found <=>
                    arg.start_index + arg.max_length < Len(Header) + Len(Markdown)
              /\ ParseMarker(ret).found =>
                    ParseMarker(ret).next = arg.start_index + arg.max_length
        /\ (arg.start_index >= Len(Header) /\ arg.start_index < Len(Header) + Len(Markdown)) =>
              ParseMarker(ret).body = Slice(Markdown, arg.start_index - Len(Header),
                                            arg.start_index - Len(Header) + arg.max_length)

C15_Witness ==
    /\ ReadOk /\ arg.resp.page = PostPage /\ arg.url = "https://aws.amazon.com/blogs/aws/p/"
    /\ arg.start_index = 2 /\ arg.max_length = 7
    /\ ret = "Intro\n\n" \o MarkerHead \o "9" \o MarkerTail

\* C4: a URL that does not start with https://aws.amazon.com/blogs/ yields the
\* error string of the validation, and no retrieval is started
C4_InvalidUrl ==
    (op \in {"read", "session"} /\ pc \in {"done", "failed"} /\ ~StartsWith(arg.url, BLOGS)) =>
        /\ ret = ErrorPrefix \o InvalidUrlMessage
        /\ fetches = 0
        /\ ~raised

C4_Witness ==
    /\ op = "read" /\ pc = "done" /\ arg.url = "http://aws.amazon.com/blogs/aws/p/"
    /\ arg.resp.kind = "ok" /\ fetches = 0

\* C10: with a valid URL, a failed retrieval returns "Error reading blog post: "
\* followed by the failure's message: no page content, no sentinel, no marker
C10_FetchFailure ==
    (op = "read" /\ pc = "done" /\ StartsWith(arg.url, BLOGS) /\ arg.resp.kind # "ok") =>
        /\ ret = ErrorPrefix \o (IF arg.resp.kind = "HTTPStatusError"
                                  THEN "Client error '404 Not Found' for url '" \o arg.url \o "'\n"
                                       \o "For more information check: "
                                       \o "https://developer.mozilla.org/en-US/docs/Web/HTTP/Status/404"
                                  ELSE arg.resp.msg)
        /\ StartsWith(ret, ErrorPrefix)
        /\ ret # NoMoreContent
        /\ ~ParseMarker(ret).found
        /\ ~raised

C10_Witness ==
    /\ op = "read" /\ pc = "done" /\ StartsWith(arg.url, BLOGS)
    /\ arg.resp.kind = "HTTPStatusError" /\ arg.start_index > 0 /\ fetches = 1
    /\ arg.url = "https://aws.amazon.com/blogs/x"
    /\ EndsWith(ret, "for url 'https://aws.amazon.com/blogs/x'\nFor more information check: "
                      \o "https://developer.mozilla.org/en-US/docs/Web/HTTP/Status/404")


-----------------------------------------------------------------------------
(* A feed, as feedparser presents it to server.py: feed.entries, each entry *)
(* with title, link, summary, author (entry.get(key, '') is '' for a        *)
(* missing key) and published_parsed, absent or a time.struct_time.         *)
(* A datetime is the record strptime builds; a feed's datetimes are naive.  *)

datetime_min == [Y |-> 1, m |-> 1, d |-> 1, H |-> 0, M |-> 0, S |-> 0, z |-> None]

\* datetime(*entry.published_parsed[:6])
datetime_of(published_parsed) ==
    [Y |-> published_parsed[1], m |-> published_parsed[2], d |-> published_parsed[3],
     H |-> published_parsed[4], M |-> published_parsed[5], S |-> published_parsed[6],
     z |-> None]

\* datetime.isoformat() of a naive datetime without microseconds
isoformat(t) ==
    Pad4(t.Y) \o "-" \o Pad2(t.m) \o "-" \o Pad2(t.d) \o "T"
        \o Pad2(t.H) \o ":" \o Pad2(t.M) \o ":" \o Pad2(t.S)

\* the Optional[datetime] field of the pydantic models, given the isoformat string
validate_datetime(s) ==
    [Y |-> ToInt(SubSeq(s, 1, 4)), m |-> ToInt(SubSeq(s, 6, 7)), d |-> ToInt(SubSeq(s, 9, 10)),
     H |-> ToInt(SubSeq(s, 12, 13)), M |-> ToInt(SubSeq(s, 15, 16)), S |-> ToInt(SubSeq(s, 18, 19)),
     z |-> None]

\* lines 419-421 and 427 (450-452 and 466): the published_date of the record built
published_date_of(entry) ==
    IF IsSome(entry.published_parsed)
    THEN Some(validate_datetime(isoformat(datetime_of(Get(entry.published_parsed)))))
    ELSE None

RECURSIVE TupleLess(_, _)
\* a < b for tuples of integers, as Python compares them
TupleLess(a, b) ==
    IF a = <<>> \/ b = <<>> THEN Len(a) < Len(b)
    ELSE IF Head(a) # Head(b) THEN Head(a) < Head(b)
    ELSE TupleLess(Tail(a), Tail(b))

\* the fields that order naive datetimes
DateTuple(t) == <<t.Y, t.m, t.d, t.H, t.M, t.S>>

RECURSIVE InsertReverse(_, _, _)
\* x, whose key is k, takes its place in a list of <<key, item>> in descending
\* order of key: after every item whose key is not smaller
InsertReverse(decorated, k, x) ==
    IF decorated = <<>> THEN << <<k, x>> >>
    ELSE IF TupleLess(Head(decorated)[1], k) THEN << <<k, x>> >> \o decorated
    ELSE <<Head(decorated)>> \o InsertReverse(Tail(decorated), k, x)

RECURSIVE SortReverse(_, _, _)
\* sorted(..., reverse=True) of items[i..], whose keys are keys[i..], into decorated:
\* the sort is stable, items with equal keys keep their order
SortReverse(items, keys, i) ==
    IF i = 0 THEN <<>>
    ELSE InsertReverse(SortReverse(items, keys, i - 1), keys[i], items[i])

Undecorate(decorated) == [i \in 1..Len(decorated) |-> decorated[i][2]]

\* sorted(items, key=..., reverse=True), keys[i] being the key of items[i]
sorted_reverse(items, keys) == Undecorate(SortReverse(items, keys, Len(items)))

-----------------------------------------------------------------------------
(* server.py _search_rss_feed *)

\* a scoring that compares the query with the title and the summary as they are
relevance_score_cased(title, summary, query_lower) ==
    (IF Contains(title, query_lower) THEN 2 ELSE 0)
        + (IF Contains(summary, query_lower) THEN 1 ELSE 0)

\* a scoring in which an empty query matches nothing
relevance_score_nonempty(title, summary, query_lower) ==
    IF query_lower = "" THEN 0
    ELSE (IF Contains(Lower(title), query_lower) THEN 2 ELSE 0)
            + (IF Contains(Lower(summary), query_lower) THEN 1 ELSE 0)

\* lines 412-416
relevance_score(title, summary, query_lower) ==
    (IF Contains(Lower(title), query_lower) THEN 2 ELSE 0)
        + (IF Contains(Lower(summary), query_lower) THEN 1 ELSE 0)

\* lines 423-429
SearchResult(entry, score) ==
    [title |-> entry.title, url |-> entry.link, summary |-> entry.summary,
     published_date |-> published_date_of(entry), category |-> None,
     relevance_score |-> score]

\* lines 418-430: an entry is materialized only when its score is positive
append_scored(entry, score) == IF score > 0 THEN <<SearchResult(entry, score)>> ELSE <<>>

RECURSIVE search_entries(_, _, _)
\* lines 407-430: the loop over the scanned entries, from the k-th on
search_entries(entries, query_lower, k) ==
    IF k > Len(entries) THEN <<>>
    ELSE append_scored(entries[k],
                       relevance_score(entries[k].title, entries[k].summary, query_lower))
         \o search_entries(entries, query_lower, k + 1)

\* lines 399-432, the body of the try: the transport's exception, or the results
_search_rss_feed_try(rss_url, resp, query, limit) ==
    IF resp.kind # "ok" THEN Raise(resp.kind, str_e(resp, rss_url))
    ELSE Ok(Slice(search_entries(Slice(resp.entries, 0, limit * 2), Lower(query), 1), 0, limit))

\* lines 434-436 (and 473-475): except Exception returns an empty list
except_return_empty(r) == IF r.exc /\ Catches("Exception", r.type) THEN Ok(<<>>) ELSE r

\* _search_rss_feed(rss_url, query, limit), resp being what rss_url answers
_search_rss_feed(rss_url, resp, query, limit) ==
    except_return_empty(_search_rss_feed_try(rss_url, resp, query, limit))

-----------------------------------------------------------------------------
(* Scoring one entry: _search_rss_feed on a feed of one entry *)

MaxLen == 2             \* titles, summaries and queries have at most MaxLen characters

Alphabet == {"a", "A", "b"}

RECURSIVE Words(_)
\* the strings over Alphabet of at most n characters
Words(n) == IF n = 0 THEN {""} ELSE Words(n - 1) \cup {w \o c : w \in Words(n - 1), c \in Alphabet}

\* what a feed URL answers: the parsed feed, or an exception whose str() is msg
FeedOk(entries) == [kind |-> "ok", entries |-> entries, msg |-> "", status |-> "200 OK"]

Entry(title, summary, published_parsed) ==
    [title |-> title, link |-> "https://aws.amazon.com/blogs/aws/" \o title, summary |-> summary,
     author |-> "", published_parsed |-> published_parsed]

ScoreInit ==
    /\ pc = "idle" /\ op = "none" /\ idx = 0
    /\ arg \in [title : Words(MaxLen), summary : Words(MaxLen), query : Words(MaxLen)]
    /\ results = <<>> /\ shadow = <<>> /\ ret = <<>> /\ raised = FALSE
    /\ fetches = 0 /\ failures = 0 /\ collected = ""
    /\ called = <<>> /\ feed = None /\ answers = <<>>
    /\ other = NoRequest /\ heap = ModuleObjects
    /\ python = OneInterpreter /\ unsorted = <<>>

\* _search_rss_feed is called and awaits the feed (line 400)
ScoreCall ==
    /\ pc = "idle"
    /\ pc' = "fetching"
    /\ op' = "score"
    /\ fetches' = 1
    /\ UNCHANGED <<arg, idx, results, shadow, ret, raised, failures, collected, called, feed, answers,
                   other, heap, python, unsorted>>

\* the feed holding the one entry answers and is searched
ScoreEntry ==
    /\ pc = "fetching"
    /\ op = "score"
    /\ \E r \in {_search_rss_feed(AWS_BLOG_CATEGORIES[1].rss,
                                   FeedOk(<<Entry(arg.title, arg.summary, None)>>), arg.query, 1)} :
          /\ ret' = r.val
          /\ raised' = r.exc
    /\ pc' = "done"
    /\ UNCHANGED <<op, arg, idx, results, shadow, fetches, failures, collected, called, feed, answers,
                   other, heap, python, unsorted>>

SpecScore == ScoreInit /\ [][ScoreCall \/ ScoreEntry]_vars

\* the characters of the alphabet that compare equal without case
SameLetter(c, d) == c = d \/ {c, d} = {"a", "A"}

\* q occurs in t at offset i, case ignored
OccursAt(q, t, i) == \A j \in 1..Len(q) : SameLetter(Char(q, j), Char(t, i + j))

\* q is a substring of t, case ignored
InText(q, t) == \E i \in 0..(Len(t) - Len(q)) : OccursAt(q, t, i)

\* C5: the entry scores 2 when the query is in the title only, 1 when it is in the
\* summary only and 3 when it is in both (case ignored); an entry matching neither
\* produces no result
C5_Scoring ==
    (op = "score" /\ pc = "done") =>
        LET t == InText(arg.query, arg.title)
            u == InText(arg.query, arg.summary)
        IN  /\ ~raised
            /\ (~t /\ ~u) <=> ret = <<>>
            /\ (t \/ u) => /\ Len(ret) = 1
                           /\ ret[1].title = arg.title /\ ret[1].summary = arg.summary
                           /\ ret[1].relevance_score = (IF t THEN 2 ELSE 0) + (IF u THEN 1 ELSE 0)
                           /\ (t /\ ~u) => ret[1].relevance_score = 2
                           /\ (~t /\ u) => ret[1].relevance_score = 1
                           /\ (t /\ u) => ret[1].relevance_score = 3

C5_Witness ==
    /\ op = "score" /\ pc = "done"
    /\ arg.query = "ab" /\ arg.title = "Ab" /\ arg.summary = "b"
    /\ Len(ret) = 1 /\ ret[1].relevance_score = 2


-----------------------------------------------------------------------------
(* server.py _get_posts_from_rss *)

RECURSIVE CategoryOfRss(_, _)
\* lines 455-459: the name of the first registry entry, from the k-th on, whose
\* feed is rss_url
CategoryOfRss(rss_url, k) ==
    IF k > Len(AWS_BLOG_CATEGORIES) THEN None
    ELSE IF AWS_BLOG_CATEGORIES[k].rss = rss_url THEN Some(AWS_BLOG_CATEGORIES[k].name)
    ELSE CategoryOfRss(rss_url, k + 1)

\* lines 461-468
BlogPost(entry, category) ==
    [title |-> entry.title, url |-> entry.link, summary |-> entry.summary,
     author |-> entry.author, published_date |-> published_date_of(entry),
     category |-> category, tags |-> None]

\* a body that keeps the last limit entries of the feed instead of the first
_get_posts_from_rss_try_tail(rss_url, resp, limit) ==
    IF resp.kind # "ok" THEN Raise(resp.kind, str_e(resp, rss_url))
    ELSE Ok([i \in 1..Min(limit, Len(resp.entries)) |->
                BlogPost(resp.entries[Len(resp.entries) - Min(limit, Len(resp.entries)) + i],
                         CategoryOfRss(rss_url, 1))])

\* lines 441-471, the body of the try
_get_posts_from_rss_try(rss_url, resp, limit) ==
    IF resp.kind # "ok" THEN Raise(resp.kind, str_e(resp, rss_url))
    ELSE Ok([i \in 1..Min(limit, Len(resp.entries)) |->
                BlogPost(resp.entries[i], CategoryOfRss(rss_url, 1))])

\* _get_posts_from_rss(rss_url, limit), resp being what rss_url answers
_get_posts_from_rss(rss_url, resp, limit) ==
    except_return_empty(_get_posts_from_rss_try(rss_url, resp, limit))

-----------------------------------------------------------------------------
(* server.py: the handlers of search_blog_posts, get_recent_posts,          *)
(* get_rss_feed and list_blog_categories.  A handler that awaits several    *)
(* feeds is resumed once per feed: <handler>_next is the code run from the  *)
(* i-th answer to the next await or to the return.                          *)

\* list(AWS_BLOG_CATEGORIES.keys())
keys == [i \in 1..Len(AWS_BLOG_CATEGORIES) |-> AWS_BLOG_CATEGORIES[i].slug]

\* "category and category in AWS_BLOG_CATEGORIES"
Known(category) == IsSome(category) /\ Get(category) # "" /\ InRegistry(Get(category))

\* line 239
categories_to_search(category) == IF Known(category) THEN <<Get(category)>> ELSE keys

\* a list that grows at its front
extend_front(acc, r) == IF r.exc THEN r ELSE Ok(r.val \o acc)

\* results.extend(r) where the call that gives r may have raised
extend(acc, r) == IF r.exc THEN r ELSE Ok(acc \o r.val)

\* lines 242-248 (334-340): the try inside the loop: an exception is logged and
\* the loop continues
extend_or_continue(acc, r) ==
    IF r.exc /\ Catches("Exception", r.type) THEN Ok(acc) ELSE extend(acc, r)

\* a share that is the whole limit when a category was named
search_category_limit_named(limit, category) ==
    IF IsSome(category) /\ Get(category) # "" THEN limit
    ELSE limit \div Len(categories_to_search(category)) + 1

\* line 244, the limit passed to _search_rss_feed for one category of the fan-out
search_category_limit(limit, category) == limit \div Len(categories_to_search(category)) + 1

\* a loop body in which the failure of a feed leaves the loop
search_category_unguarded(acc, rss_url, resp, query, limit, category) ==
    IF resp.kind # "ok" THEN Raise(resp.kind, str_e(resp, rss_url))
    ELSE extend(acc, _search_rss_feed(rss_url, resp, query, search_category_limit(limit, category)))

\* lines 242-248: one category of the fan-out
search_category(acc, rss_url, resp, query, limit, category) ==
    extend_or_continue(acc, _search_rss_feed(rss_url, resp, query,
                                             search_category_limit(limit, category)))

\* line 251, the sort key "x.relevance_score or 0": every result built at lines
\* 423-429 carries its score, and 0 or 0 is 0
relevance_key(x) == <<x.relevance_score>>

\* a sort in ascending order that is then reversed: equal keys change places
search_sorted_ascending_reversed(acc, limit) ==
    Slice(sorted_reverse([i \in 1..Len(acc) |-> acc[Len(acc) + 1 - i]],
                         [i \in 1..Len(acc) |-> relevance_key(acc[Len(acc) + 1 - i])]),
          0, limit)

\* a return that leaves out the [:limit]
search_sorted_untruncated(acc, limit) ==
    sorted_reverse(acc, [i \in 1..Len(acc) |-> relevance_key(acc[i])])

\* line 251
search_sorted(acc, limit) ==
    Slice(sorted_reverse(acc, [i \in 1..Len(acc) |-> relevance_key(acc[i])]), 0, limit)

\* what a handler does with the outcome r of its loop step: the except of the
\* handler (lines 255-257, 347-349, 389-391) returns [], the last step returns
\* final, any other step goes on with the accumulator; acc is the list the loop
\* built, exc tells that the step left through the except
resume(r, last, final) ==
    IF r.exc THEN [done |-> TRUE, acc |-> <<>>, ret |-> <<>>, raised |-> ~Catches("Exception", r.type),
                   exc |-> TRUE]
    ELSE IF last THEN [done |-> TRUE, acc |-> r.val, ret |-> final, raised |-> FALSE, exc |-> FALSE]
    ELSE [done |-> FALSE, acc |-> r.val, ret |-> <<>>, raised |-> FALSE, exc |-> FALSE]

\* lines 234-235 and 243-244: the arguments of the i-th call of _search_rss_feed
search_call(a, i) ==
    IF Known(a.category)
    THEN [rss_url |-> Registry(Get(a.category)).rss, limit |-> a.limit]
    ELSE [rss_url |-> Registry(Slice(categories_to_search(a.category), 0, 5)[i]).rss,
          limit |-> search_category_limit(a.limit, a.category)]

\* lines 233-251, from the answer resp of the feed retrieved
search_step(acc, resp, a, i) ==
    IF Known(a.category)
    THEN extend(acc, _search_rss_feed(search_call(a, i).rss_url, resp, a.query, a.limit))
    ELSE search_category(acc, search_call(a, i).rss_url, resp, a.query, a.limit, a.category)

\* a fan-out that stops at the first category that gave a result
search_return_first_hit(r, a, i) ==
    resume(r, Known(a.category) \/ i = Len(Slice(categories_to_search(a.category), 0, 5))
                                \/ (~r.exc /\ r.val # <<>>),
           IF r.exc THEN <<>> ELSE search_sorted(r.val, a.limit))

\* the return of the handler after its step r
search_return(r, a, i) ==
    resume(r, Known(a.category) \/ i = Len(Slice(categories_to_search(a.category), 0, 5)),
           IF r.exc THEN <<>> ELSE search_sorted(r.val, a.limit))

\* search_blog_posts(query, category, limit) from the i-th answer on
search_blog_posts_next(acc, resp, a, i) == search_return(search_step(acc, resp, a, i), a, i)

\* line 336, the limit passed to _get_posts_from_rss for one category of the fan-out
recent_category_limit(limit) == limit \div 5 + 1

\* lines 333-340: one category of the fan-out
recent_category(acc, rss_url, resp, limit) ==
    extend_or_continue(acc, _get_posts_from_rss(rss_url, resp, recent_category_limit(limit)))

\* line 343, the sort key "x.published_date or datetime.min"
published_key(x) ==
    DateTuple(IF IsSome(x.published_date) THEN Get(x.published_date) ELSE datetime_min)

\* line 343
recent_sorted(acc, limit) ==
    Slice(sorted_reverse(acc, [i \in 1..Len(acc) |-> published_key(acc[i])]), 0, limit)

\* a fan-out over the last five entries of the registry
recent_categories_last == Slice(AWS_BLOG_CATEGORIES, Len(AWS_BLOG_CATEGORIES) - 5, Len(AWS_BLOG_CATEGORIES))

\* list(AWS_BLOG_CATEGORIES.items())[:5]
recent_categories == Slice(AWS_BLOG_CATEGORIES, 0, 5)

\* lines 328-329 and 335-336: the arguments of the i-th call of _get_posts_from_rss
recent_call(a, i) ==
    IF Known(a.category)
    THEN [rss_url |-> Registry(Get(a.category)).rss, limit |-> a.limit]
    ELSE [rss_url |-> recent_categories[i].rss, limit |-> recent_category_limit(a.limit)]

\* lines 326-340, from the answer resp of the feed retrieved
recent_step(acc, resp, a, i) ==
    IF Known(a.category)
    THEN extend(acc, _get_posts_from_rss(Registry(Get(a.category)).rss, resp, a.limit))
    ELSE recent_category(acc, recent_categories[i].rss, resp, a.limit)

\* the return of the handler after its step r
recent_return(r, a, i) ==
    resume(r, Known(a.category) \/ i = Len(recent_categories),
           IF r.exc THEN <<>> ELSE recent_sorted(r.val, a.limit))

\* get_recent_posts(category, limit) from the i-th answer on
get_recent_posts_next(acc, resp, a, i) == recent_return(recent_step(acc, resp, a, i), a, i)

\* lines 379-387, the body of the try
get_rss_feed_try(category, resp, limit) ==
    IF ~InRegistry(category)
    THEN Raise("ValueError", "Unknown category: " \o category
                             \o ". Use list_blog_categories to see available options.")
    ELSE _get_posts_from_rss(Registry(category).rss, resp, limit)

\* lines 384-385: the arguments of the call of _get_posts_from_rss
rss_call(category, limit) == [rss_url |-> Registry(category).rss, limit |-> limit]

\* the list returned, whether an exception leaves the handler, and the number of
\* retrievals started
rss_return(r, fetched) ==
    [ret |-> IF r.exc THEN <<>> ELSE r.val, raised |-> r.exc, fetches |-> IF fetched THEN 1 ELSE 0]

\* get_rss_feed(category, limit), lines 378-391
get_rss_feed(category, resp, limit) ==
    rss_return(except_return_empty(get_rss_feed_try(category, resp, limit)), InRegistry(category))

\* a record built with the key and the name exchanged
BlogCategory_swapped(info) ==
    [name |-> info.slug, slug |-> info.name, url |-> info.url, description |-> None,
     rss_url |-> Some(info.rss)]

\* lines 276-281
BlogCategory(info) ==
    [name |-> info.name, slug |-> info.slug, url |-> info.url, description |-> None,
     rss_url |-> Some(info.rss)]

\* list_blog_categories()
list_blog_categories == [i \in 1..Len(AWS_BLOG_CATEGORIES) |-> BlogCategory(AWS_BLOG_CATEGORIES[i])]


-----------------------------------------------------------------------------
(* The server: one request at a time, its feeds answered one by one *)

MaxLimit == 3           \* limit ranges over 1..MaxLimit
MaxFeedLen == 2         \* a feed holds at most MaxFeedLen entries

min_struct_time == <<1, 1, 1, 0, 0, 0, 0, 1, 0>>

\* the entries the feeds are made of: dated, undated, and dated 0001-01-01T00:00:00
Entries ==
    { Entry("Ab", "c", Some(<<2025, 10, 28, 16, 59, 17, 1, 301, 0>>)),
      Entry("c", "xaB", None),
      Entry("AB", "ab", Some(min_struct_time)) }

RECURSIVE Feeds(_)
\* the feeds of at most n entries
Feeds(n) == IF n = 0 THEN {<<>>} ELSE Feeds(n - 1) \cup {f \o <<e>> : f \in Feeds(n - 1), e \in Entries}

FeedFailures ==
    { [kind |-> "TimeoutException", entries |-> <<>>, msg |-> "", status |-> ""],
      [kind |-> "HTTPStatusError", entries |-> <<>>, msg |-> "", status |-> "503 Service Unavailable"] }

FeedResponses == {FeedOk(f) : f \in Feeds(MaxFeedLen)} \cup FeedFailures

Queries == {"aB", "c", ""}

\* category arguments: absent, empty, unknown, and known (inside and outside the
\* first five of the registry)
CategoryArgs == {None, Some(""), Some("nope"), Some("compute"), Some("security")}

Limits == 1..MaxLimit

\* the answer of a feed, a failed feed taken for an empty one
AsEmpty(resp) == IF resp.kind = "ok" THEN resp ELSE FeedOk(<<>>)

Init ==
    /\ pc = "idle" /\ op = "none" /\ arg = <<>> /\ idx = 0
    /\ results = <<>> /\ shadow = <<>> /\ ret = <<>> /\ raised = FALSE
    /\ fetches = 0 /\ failures = 0 /\ collected = ""
    /\ called = <<>> /\ feed = None /\ answers = <<>>
    /\ other = NoRequest /\ heap = ModuleObjects
    /\ python = OneInterpreter /\ unsorted = <<>>

\* a search_blog_posts request arrives: the handler runs to its first await
CallSearchOf(queries, categories, limits) ==
    /\ pc = "idle"
    /\ \E query \in queries, category \in categories, limit \in limits :
          arg' = [query |-> query, category |-> category, limit |-> limit]
    /\ called' = search_call(arg', 1)
    /\ fetches' = 1
    /\ pc' = "fetching"
    /\ op' = "search"
    /\ idx' = 1
    /\ UNCHANGED <<results, shadow, ret, raised, failures, collected, feed, answers, other, heap, python, unsorted>>

CallSearch == CallSearchOf(Queries, CategoryArgs, Limits)

\* a get_recent_posts request arrives
CallRecentOf(categories, limits) ==
    /\ pc = "idle"
    /\ \E category \in categories, limit \in limits :
          arg' = [category |-> category, limit |-> limit]
    /\ called' = recent_call(arg', 1)
    /\ fetches' = 1
    /\ pc' = "fetching"
    /\ op' = "recent"
    /\ idx' = 1
    /\ UNCHANGED <<results, shadow, ret, raised, failures, collected, feed, answers, other, heap, python, unsorted>>

CallRecent == CallRecentOf(CategoryArgs, Limits)

\* the feed awaited answers and the handler runs to its next await, the call c of
\* the helper for the next category, or returns
Resume(resp, n, t, c, keep) ==
    /\ answers' = IF keep THEN Append(answers, resp) ELSE answers
    /\ called' = IF n.done THEN called ELSE c
    /\ feed' = IF Known(arg.category) THEN Some(resp) ELSE feed
    /\ results' = IF n.exc THEN results ELSE IF n.done THEN n.ret ELSE n.acc
    /\ unsorted' = IF n.exc THEN results ELSE n.acc
    /\ shadow' = IF t.done THEN t.ret ELSE t.acc
    /\ ret' = n.ret
    /\ raised' = n.raised
    /\ pc' = IF n.done THEN "done" ELSE "fetching"
    /\ idx' = IF n.done THEN idx ELSE idx + 1
    /\ fetches' = IF n.done THEN fetches ELSE fetches + 1
    /\ failures' = IF resp.kind = "ok" THEN failures ELSE failures + 1
    /\ UNCHANGED <<op, arg, collected, other, heap, python>>

SearchFeedOf(responses, keep) ==
    /\ pc = "fetching"
    /\ op = "search"
    /\ \E resp \in responses :
       \E n \in {search_blog_posts_next(results, resp, arg, idx)} :
       \E t \in {search_blog_posts_next(shadow, AsEmpty(resp), arg, idx)} :
          Resume(resp, n, t, search_call(arg, Min(idx + 1, 5)), keep)

SearchFeed == SearchFeedOf(FeedResponses, FALSE)

RecentFeedOf(responses, keep) ==
    /\ pc = "fetching"
    /\ op = "recent"
    /\ \E resp \in responses :
       \E n \in {get_recent_posts_next(results, resp, arg, idx)} :
       \E t \in {get_recent_posts_next(shadow, AsEmpty(resp), arg, idx)} :
          Resume(resp, n, t, recent_call(arg, Min(idx + 1, 5)), keep)

RecentFeed == RecentFeedOf(FeedResponses, FALSE)

\* a get_rss_feed request arrives: with a registered category the handler awaits
\* the feed (lines 384-385, 443), with any other it returns [] (lines 380-381,
\* 389-391) without a retrieval
CallRss ==
    /\ pc = "idle"
    /\ op' = "rss"
    /\ \E category \in {"", "nope", "compute", "security"}, limit \in Limits :
          /\ arg' = [category |-> category, limit |-> limit]
          /\ IF InRegistry(category)
             THEN /\ pc' = "fetching"
                  /\ fetches' = 1
                  /\ called' = rss_call(category, limit)
                  /\ UNCHANGED <<ret, raised>>
             ELSE \E r \in {get_rss_feed(category, FeedOk(<<>>), limit)} :
                     /\ pc' = "done"
                     /\ ret' = r.ret
                     /\ raised' = r.raised
                     /\ fetches' = r.fetches
                     /\ UNCHANGED called
    /\ UNCHANGED <<idx, results, shadow, failures, collected, feed, answers, other, heap, python, unsorted>>

\* the feed get_rss_feed awaits answers and the handler returns
GetRssFeed ==
    /\ pc = "fetching"
    /\ op = "rss"
    /\ \E resp \in FeedResponses :
       \E r \in {get_rss_feed(arg.category, resp, arg.limit)} :
          /\ ret' = r.ret
          /\ raised' = r.raised
          /\ failures' = IF resp.kind # "ok" THEN 1 ELSE 0
          /\ feed' = Some(resp)
    /\ pc' = "done"
    /\ UNCHANGED <<op, arg, idx, results, shadow, fetches, collected, called, answers, other, heap, python, unsorted>>

ListBlogCategories ==
    /\ pc = "idle"
    /\ ret' = list_blog_categories
    /\ pc' = "done"
    /\ op' = "list"
    /\ UNCHANGED <<arg, idx, results, shadow, raised, fetches, failures, collected, called, feed, answers,
                   other, heap, python, unsorted>>

\* a read_blog_post request with its default max_length and start_index arrives,
\* resp being what the site holds at the URL: with a URL of the blog the handler
\* awaits the page (line 144), with any other it returns the error
CallRead ==
    /\ pc = "idle"
    /\ op' = "read"
    /\ \E url \in Urls, resp \in PageResponses :
          /\ arg' = [url |-> url, resp |-> resp, max_length |-> DefaultMaxLength, start_index |-> 0]
          /\ IF StartsWith(url, BLOGS)
             THEN /\ pc' = "fetching"
                  /\ fetches' = 1
                  /\ UNCHANGED <<ret, raised>>
             ELSE \E r \in {read_blog_post(url, resp, DefaultMaxLength, 0)} :
                     /\ pc' = "done"
                     /\ ret' = r.ret
                     /\ raised' = r.raised
                     /\ fetches' = r.fetches
    /\ UNCHANGED <<idx, results, shadow, failures, collected, called, feed, answers, other, heap, python, unsorted>>

\* the page read_blog_post awaits answers and the handler returns
ReadBlogPost ==
    /\ pc = "fetching"
    /\ op = "read"
    /\ \E r \in {read_blog_post(arg.url, arg.resp, arg.max_length, arg.start_index)} :
          /\ ret' = r.ret
          /\ raised' = r.raised
    /\ failures' = IF arg.resp.kind # "ok" THEN 1 ELSE 0
    /\ pc' = "done"
    /\ UNCHANGED <<op, arg, idx, results, shadow, fetches, collected, called, feed, answers,
                   other, heap, python, unsorted>>

\* the response is sent: the handler's locals are gone and the server waits for
\* the next request
Return ==
    /\ pc = "done"
    /\ pc' = "idle" /\ op' = "none" /\ arg' = <<>> /\ idx' = 0
    /\ results' = <<>> /\ shadow' = <<>> /\ ret' = <<>> /\ raised' = FALSE
    /\ fetches' = 0 /\ failures' = 0 /\ called' = <<>> /\ feed' = None /\ answers' = <<>>
    /\ unsorted' = <<>>
    /\ UNCHANGED <<collected, other, heap, python>>

Next ==
    \/ CallSearch \/ SearchFeed
    \/ CallRecent \/ RecentFeed
    \/ CallRss \/ GetRssFeed
    \/ ListBlogCategories
    \/ CallRead \/ ReadBlogPost
    \/ Return

Spec == Init /\ [][Next]_vars

-----------------------------------------------------------------------------
(* The fan-out under limits that give a category a share of more than one  *)
(* item: each feed answering a feed of six entries, a feed of two, an empty *)
(* feed, or a failure; get_recent_posts without a known category, and      *)
(* search_blog_posts also with one and with the empty query                *)

DefaultLimit == 10

LargeLimits == {5, 6, DefaultLimit}

LongFeed ==
    << Entry("Ab", "c", Some(<<2025, 10, 28, 16, 59, 17, 1, 301, 0>>)),
       Entry("aB c", "xaB", None),
       Entry("AB", "ab", Some(<<2025, 10, 29, 8, 0, 0, 2, 302, 0>>)),
       Entry("abc", "", Some(<<2024, 2, 29, 23, 59, 59, 3, 60, 0>>)),
       Entry("d", "Abd", Some(<<2025, 10, 28, 16, 59, 17, 1, 301, 0>>)),
       Entry("ab", "e", None) >>

LargeResponses == {FeedOk(LongFeed), FeedOk(Slice(LongFeed, 1, 3)), FeedOk(<<>>)} \cup FeedFailures

\* category arguments that name no registry entry: absent, empty, unknown
NoCategoryArgs == {None, Some(""), Some("nope")}

CallSearchLarge == CallSearchOf({"aB", ""}, NoCategoryArgs \cup {Some("compute")}, LargeLimits)

SearchFeedLarge == SearchFeedOf(LargeResponses, TRUE)

CallRecentLarge == CallRecentOf(NoCategoryArgs, LargeLimits)

RecentFeedLarge == RecentFeedOf(LargeResponses, TRUE)

NextLarge == CallSearchLarge \/ SearchFeedLarge \/ CallRecentLarge \/ RecentFeedLarge

SpecLarge == Init /\ [][NextLarge]_vars


-----------------------------------------------------------------------------
(* Claims about the feed operations, checked under Spec *)

FanOut == op \in {"search", "recent"} /\ ~Known(arg.category)

\* C6: search_blog_posts returns at most limit results, in non-increasing order of
\* relevance, none of them with relevance 0, whatever the query, the category
\* argument, the feeds' contents and the feeds' failures
C6_SearchResults ==
    (op = "search" /\ pc = "done") =>
        /\ Len(ret) <= arg.limit
        /\ \A i \in 1..Len(ret) : ret[i].relevance_score > 0
        /\ \A i \in 1..Len(ret) : \A j \in (i + 1)..Len(ret) :
              ret[i].relevance_score >= ret[j].relevance_score

C6_Witness ==
    /\ op = "search" /\ pc = "done" /\ arg.category = Some("nope") /\ arg.query = "aB"
    /\ failures = 1 /\ arg.limit = MaxLimit /\ Len(ret) = arg.limit /\ Len(unsorted) > arg.limit
    /\ ret[1].relevance_score = 3 /\ ret[Len(ret)].relevance_score = 2

\* C7: get_recent_posts returns at most limit posts, those with a published date
\* in descending order of it, and every post without a published date after every
\* post with one
C7_RecentOrder ==
    (op = "recent" /\ pc = "done") =>
        /\ Len(ret) <= arg.limit
        /\ \A i \in 1..Len(ret) : \A j \in (i + 1)..Len(ret) :
              /\ (IsSome(ret[i].published_date) /\ IsSome(ret[j].published_date)) =>
                    ~TupleLess(DateTuple(Get(ret[i].published_date)),
                               DateTuple(Get(ret[j].published_date)))
              /\ ~(~IsSome(ret[i].published_date) /\ IsSome(ret[j].published_date))

\* C8: in a request without a known category, the result is the result of the
\* run in which every feed that failed was an empty feed
C8_FailureIsolation ==
    (FanOut /\ pc = "done") => (ret = shadow /\ ~raised)

C8_Witness ==
    /\ FanOut /\ pc = "done" /\ op = "recent" /\ arg.limit = 2
    /\ failures = 2 /\ fetches = 5 /\ Len(unsorted) = 3 /\ Len(ret) = 2

\* C9: no operation raises to its caller: the four feed operations return a list
\* (a handler awaits at most five feeds before it returns) and read_blog_post
\* returns a string
C9_NeverRaises ==
    /\ ~raised
    /\ pc = "fetching" => (idx <= 5 /\ fetches = Max(idx, 1))
    /\ (pc = "done" /\ op = "read") => ret \in STRING
    /\ (pc = "done" /\ op \in {"search", "recent", "rss", "list"}) =>
          /\ DOMAIN ret = 1..Len(ret)
          /\ \A i \in 1..Len(ret) : "title" \in DOMAIN ret[i] \/ "slug" \in DOMAIN ret[i]

C9_Witness ==
    /\ pc = "done" /\ op = "read" /\ failures = 1 /\ arg.resp.kind = "TimeoutException"
    /\ ret = ErrorPrefix

\* C11: get_rss_feed with a category key that is not in the registry attempts no
\* feed retrieval, and its outcome differs from the outcome of a known category
\* whose feed was retrieved and is empty (an empty list, nothing raised)
C11_UnknownCategory ==
    (op = "rss" /\ pc = "done" /\ ~InRegistry(arg.category)) =>
        /\ fetches = 0
        /\ ~(ret = <<>> /\ ~raised)

\* C12: get_rss_feed with a registered category whose feed is retrieved returns
\* the first min(limit, n) of the feed's n entries, one post per entry, in the
\* order of the feed
C12_FeedOrder ==
    (op = "rss" /\ pc = "done" /\ InRegistry(arg.category) /\ Get(feed).kind = "ok") =>
        /\ Len(ret) = Min(arg.limit, Len(Get(feed).entries))
        /\ \A i \in 1..Len(ret) :
              /\ ret[i].title = Get(feed).entries[i].title
              /\ ret[i].url = Get(feed).entries[i].link
              /\ ret[i].summary = Get(feed).entries[i].summary

C12_Witness ==
    /\ op = "rss" /\ pc = "done" /\ arg.category = "security" /\ arg.limit = 1
    /\ Get(feed).kind = "ok" /\ Len(Get(feed).entries) = 2
    /\ Get(feed).entries[1].title = "c" /\ Get(feed).entries[2].title = "Ab"
    /\ Len(ret) = 1 /\ ret[1].title = "c" /\ called.limit = 1

\* C13: every entry of the registry has a name that is not empty, a url under
\* https://aws.amazon.com/blogs/ and a feed url under the same prefix that ends
\* with /feed/, so has every feed url a handler passes to a feed helper, and the
\* keys aws, machine-learning, security, compute and architecture are registered
C13_Registry ==
    /\ \A i \in DOMAIN AWS_BLOG_CATEGORIES :
          /\ AWS_BLOG_CATEGORIES[i].name # ""
          /\ StartsWith(AWS_BLOG_CATEGORIES[i].url, "https://aws.amazon.com/blogs/")
          /\ StartsWith(AWS_BLOG_CATEGORIES[i].rss, "https://aws.amazon.com/blogs/")
          /\ EndsWith(AWS_BLOG_CATEGORIES[i].rss, "/feed/")
    /\ \A key \in {"aws", "machine-learning", "security", "compute", "architecture"} :
          InRegistry(key)
    /\ called # <<>> =>
          /\ StartsWith(called.rss_url, "https://aws.amazon.com/blogs/")
          /\ EndsWith(called.rss_url, "/feed/")

C13_Witness ==
    /\ op = "recent" /\ pc = "done" /\ arg.category = Some("compute")
    /\ called.rss_url = "https://aws.amazon.com/blogs/compute/feed/"
    /\ Len(ret) = 1 /\ ret[1].category = Some("AWS Compute Blog")

\* C14: every call of list_blog_categories, whatever requests were served before
\* it, returns one record per registry entry, in the order of declaration, with
\* the entry's name, key and url (a non-empty list)
C14_ListCategories ==
    (op = "list" /\ pc = "done") =>
        /\ Len(ret) = Len(AWS_BLOG_CATEGORIES)
        /\ Len(ret) > 0
        /\ \A i \in 1..Len(ret) :
              /\ ret[i].name = AWS_BLOG_CATEGORIES[i].name
              /\ ret[i].slug = AWS_BLOG_CATEGORIES[i].slug
              /\ ret[i].url = AWS_BLOG_CATEGORIES[i].url

C14_Witness ==
    /\ op = "list" /\ pc = "done" /\ Len(ret) = 11
    /\ ret[1].slug = "aws" /\ ret[2].slug = "architecture" /\ ret[11].slug = "storage"
    /\ ret[8].name = "AWS Machine Learning Blog"
    /\ ret[8].url = "https://aws.amazon.com/blogs/machine-learning/"

\* the results a request for one known category scores in the first 2 * limit
\* entries of its feed: those of positive score, in the order of the feed
Scanned == search_entries(Slice(Get(feed).entries, 0, 2 * arg.limit), Lower(arg.query), 1)

\* C17: search_blog_posts with a known category returns the positive-scoring
\* entries among the first 2 * limit entries of the feed, sorted by score
\* descending (stable) and then cut to limit: no entry returned scores lower than
\* a positive-scoring entry of those first 2 * limit that was left out
C17_TopLimit ==
    (op = "search" /\ pc = "done" /\ Known(arg.category) /\ Get(feed).kind = "ok") =>
        /\ ret = Slice(sorted_reverse(Scanned, [i \in 1..Len(Scanned) |-> <<Scanned[i].relevance_score>>]),
                       0, arg.limit)
        /\ \A j \in 1..Len(Scanned) :
              (\A i \in 1..Len(ret) : ret[i] # Scanned[j]) =>
                  \A i \in 1..Len(ret) : ret[i].relevance_score >= Scanned[j].relevance_score

\* the k-th date selector matches an element of the page whose date string parses
Parseable(page, k) ==
    IsSome(page.dates[k]) /\ IsSome(parse_date_string(date_str_of(Get(page.dates[k]))))

\* C18: when the first date element a selector matches carries a string that
\* does not parse and a later selector matches an element whose string parses,
\* the post's published date is the timestamp of the first such later element
\* (read_blog_post renders it in the Published line of the header)
C18_DateFallback ==
    (op = "read" /\ pc = "done" /\ StartsWith(arg.url, BLOGS) /\ arg.resp.kind = "ok") =>
        \A d \in DOMAIN date_selectors : \A k \in DOMAIN date_selectors :
            ( /\ d = FirstSome(arg.resp.page.dates, 1)
              /\ ~Parseable(arg.resp.page, d)
              /\ k > d
              /\ Parseable(arg.resp.page, k)
              /\ \A j \in (d + 1)..(k - 1) : ~Parseable(arg.resp.page, j) ) =>
                Contains(ret, "**Published:** "
                              \o DateTimeStr(Get(parse_date_string(
                                     date_str_of(Get(arg.resp.page.dates[k])))))
                              \o "\n")

-----------------------------------------------------------------------------
(* Claims about the shares of the fan-out, checked under SpecLarge *)

\* C19: in a search without a known category, the limit passed to the search of
\* each feed is floor(limit / count) + 1, count being the number of categories
\* the fan-out searches (at most 5)
C19_SearchShare ==
    (op = "search" /\ FanOut /\ fetches >= 1) =>
        called.limit = arg.limit \div Len(Slice(categories_to_search(arg.category), 0, 5)) + 1

\* C20: get_recent_posts without a known category retrieves the feeds of the
\* first five registry entries in their order (aws, architecture, compute,
\* containers, database), asks each for floor(limit / 5) + 1 posts, and returns
\* no post of another category
C20_RecentFive ==
    (op = "recent" /\ FanOut) =>
        /\ fetches <= 5
        /\ pc = "done" => fetches = 5
        /\ fetches >= 1 =>
              /\ called.rss_url = Registry(<<"aws", "architecture", "compute", "containers",
                                             "database">>[fetches]).rss
              /\ called.rss_url = AWS_BLOG_CATEGORIES[fetches].rss
              /\ called.limit = arg.limit \div 5 + 1
        /\ \A i \in 1..Len(ret) :
              \E k \in 1..5 : ret[i].category = Some(AWS_BLOG_CATEGORIES[k].name)
        /\ \A k \in 1..5 :
              Cardinality({i \in 1..Len(unsorted) :
                              unsorted[i].category = Some(AWS_BLOG_CATEGORIES[k].name)})
                  <= arg.limit \div 5 + 1

C20_Witness ==
    /\ op = "recent" /\ FanOut /\ pc = "done" /\ arg.limit = DefaultLimit
    /\ fetches = 5 /\ failures = 1
    /\ called = [rss_url |-> "https://aws.amazon.com/blogs/database/feed/", limit |-> 3]
    /\ Len(unsorted) = 12 /\ Len(ret) = 10
    /\ ret[1].category = Some("AWS News Blog")
    /\ \E i \in 1..Len(ret) : ret[i].category = Some("Database")

RECURSIVE search_run(_, _, _, _)
\* search_blog_posts(a) on its own from its i-th await on, the feeds answering
\* hist[i], hist[i + 1], ...: what it returns, once the answers suffice
search_run(acc, a, hist, i) ==
    IF i > Len(hist) THEN [done |-> FALSE, ret |-> <<>>, raised |-> FALSE]
    ELSE LET n == search_blog_posts_next(acc, hist[i], a, i)
         IN  IF n.done THEN [done |-> TRUE, ret |-> n.ret, raised |-> n.raised]
             ELSE search_run(n.acc, a, hist, i + 1)

RECURSIVE recent_run(_, _, _, _)
\* get_recent_posts(a) on its own, likewise
recent_run(acc, a, hist, i) ==
    IF i > Len(hist) THEN [done |-> FALSE, ret |-> <<>>, raised |-> FALSE]
    ELSE LET n == get_recent_posts_next(acc, hist[i], a, i)
         IN  IF n.done THEN [done |-> TRUE, ret |-> n.ret, raised |-> n.raised]
             ELSE recent_run(n.acc, a, hist, i + 1)

\* the request of the state run on its own with arguments a on the answers kept
RunAlone(a) ==
    IF op = "search" THEN search_run(<<>>, a, answers, 1) ELSE recent_run(<<>>, a, answers, 1)

\* C21: search_blog_posts and get_recent_posts called with a category that is
\* not a registry key (unknown or empty) return what the same call without a
\* category returns on the same answers of the feeds, after as many retrievals
C21_UnknownIsAbsent ==
    (op \in {"search", "recent"} /\ IsSome(arg.category) /\ ~Known(arg.category)) =>
        /\ pc = "done" =>
              RunAlone([arg EXCEPT !.category = None]) = [done |-> TRUE, ret |-> ret, raised |-> raised]
        /\ pc = "fetching" => ~RunAlone([arg EXCEPT !.category = None]).done

C21_Witness ==
    /\ op = "search" /\ pc = "done" /\ arg.category = Some("nope") /\ arg.limit = 5
    /\ Len(answers) = 5 /\ failures = 2 /\ Len(ret) = 3
    /\ RunAlone([arg EXCEPT !.category = None]).ret = ret

-----------------------------------------------------------------------------
(* clean_html_content alone: documents in which any set of the six content *)
(* selectors matches, the markdown of each region and of the whole document *)
(* being two blocks of text with a run of whitespace before, between and     *)
(* after them                                                                *)

MaxGap == 4             \* a run of whitespace holds at most MaxGap characters

RECURSIVE Gaps(_)
\* the runs of at most n characters of newlines, spaces and form feeds
Gaps(n) ==
    IF n = 0 THEN {""} ELSE Gaps(n - 1) \cup {g \o c : g \in Gaps(n - 1), c \in {"\n", " ", "\f"}}

\* the first block of the region of the k-th selector, and of the whole document
SelectorMark(k) == Char("123456", k)
WholeMark == "w"

\* markdown of two blocks around the run g
Blocks(mark, g) == g \o mark \o g \o "b" \o g

\* the document whose selectors of the set matched match, g being its whitespace
CleanPage(matched, g, raises) ==
    [EmptyPage EXCEPT
        !.regions = [k \in 1..Len(content_selectors) |->
                        IF k \in matched THEN Some(Blocks(SelectorMark(k), g)) ELSE None],
        !.whole = Blocks(WholeMark, g),
        !.md_raises = raises,
        !.html = "<p>" \o g \o "</p>"]

CleanInit ==
    /\ pc = "idle" /\ op = "none" /\ idx = 0
    /\ \E matched \in SUBSET (1..Len(content_selectors)), g \in Gaps(MaxGap), raises \in BOOLEAN :
          arg = [page |-> CleanPage(matched, g, raises), gap |-> g]
    /\ results = <<>> /\ shadow = <<>> /\ ret = "" /\ raised = FALSE
    /\ fetches = 0 /\ failures = 0 /\ collected = ""
    /\ called = <<>> /\ feed = None /\ answers = <<>>
    /\ other = NoRequest /\ heap = ModuleObjects
    /\ python = OneInterpreter /\ unsorted = <<>>

\* one call of clean_html_content
CleanHtmlContent ==
    /\ pc = "idle"
    /\ ret' = clean_html_content(arg.page)
    /\ pc' = "done"
    /\ op' = "clean"
    /\ UNCHANGED <<arg, idx, results, shadow, raised, fetches, failures, collected, called, feed, answers,
                   other, heap, python, unsorted>>

SpecClean == CleanInit /\ [][CleanHtmlContent]_vars

\* the call returned on the path that does not raise
Cleaned == op = "clean" /\ pc = "done" /\ ~arg.page.md_raises

\* the selectors that match an element of the document
Matching == {k \in 1..Len(content_selectors) : IsSome(arg.page.regions[k])}

\* C25: the text returned is that of the region of the first content selector,
\* in the order article, .post-content, .entry-content, .blog-post-content, main,
\* #main-content, that matches; the region of a later selector is returned only
\* when no earlier one matches, and the whole document only when none matches
C25_FirstSelector ==
    /\ content_selectors = <<"article", ".post-content", ".entry-content",
                             ".blog-post-content", "main", "#main-content">>
    /\ Cleaned =>
          /\ \A k \in Matching :
                (\A j \in Matching : k <= j) <=> StartsWith(ret, SelectorMark(k))
          /\ Matching = {} <=> StartsWith(ret, WholeMark)

C25_Witness ==
    /\ Cleaned /\ Matching = {3, 5} /\ arg.gap = " " /\ ret = "3 b"

\* the number of newlines of s
Newlines(s) == CountNewlines(s, 1, Len(s))

\* C26: two blocks that the markdown separates by a run of whitespace that
\* starts and ends with a newline and holds three or more newlines are
\* separated, in the text returned, by exactly two newlines
C26_BlankLine ==
    (Cleaned /\ Matching = {1} /\ Newlines(arg.gap) >= 3
        /\ StartsWith(arg.gap, "\n") /\ EndsWith(arg.gap, "\n")) =>
        ret = SelectorMark(1) \o "\n\n" \o "b"

\* C27: on the path that does not raise, the text returned has no whitespace at
\* its start or end, and no character that follows a newline is whitespace
C27_NoLeadingWhitespace ==
    Cleaned =>
        /\ ret = Strip(ret)
        /\ \A p \in 1..Len(ret) :
              (p = 1 \/ Char(ret, p - 1) = "\n") => ~IsSpace(Char(ret, p))

C27_Witness ==
    /\ Cleaned /\ Matching = {} /\ arg.gap = " \n\f "
    /\ arg.page.whole = Blocks(WholeMark, arg.gap) /\ ret = "w \nb"

RECURSIVE OfScore(_, _)
\* the results of relevance s, in their order in the sequence
OfScore(seq, s) ==
    IF seq = <<>> THEN <<>>
    ELSE (IF Head(seq).relevance_score = s THEN <<Head(seq)>> ELSE <<>>) \o OfScore(Tail(seq), s)

\* seq starts with the sequence front
IsPrefix(front, seq) == Len(front) <= Len(seq) /\ front = SubSeq(seq, 1, Len(front))

\* C22: results of equal relevance are returned in the order of their entries in
\* the feed and, in a fan-out, those of an earlier category before those of a
\* later one: each answer adds its results, in the feed's order, at the end of
\* what the categories before it gave, and the results returned of one relevance
\* are the first of that relevance in this order
C22_StableTies ==
    [][ (op = "search" /\ pc = "fetching" /\ pc' \in {"fetching", "done"}) =>
            /\ IsPrefix(unsorted, unsorted')
            /\ Known(arg.category) /\ Get(feed').kind = "ok" =>
                  IsPrefix(unsorted',
                           search_entries(Get(feed').entries, Lower(arg.query), 1))
            /\ pc' = "done" =>
                  \A s \in 1..3 : IsPrefix(OfScore(ret', s), OfScore(unsorted', s)) ]_vars

C22_Witness ==
    /\ op = "search" /\ pc = "done" /\ FanOut /\ arg.query = "" /\ arg.limit = 2
    /\ Len(unsorted) = 4 /\ failures = 1
    /\ unsorted[1] # unsorted[2] /\ unsorted[1].relevance_score = unsorted[2].relevance_score
    /\ ret = <<unsorted[1], unsorted[2]>>

\* the feed of the i-th retrieval of the request
Attempted(i) ==
    IF Known(arg.category) THEN Registry(Get(arg.category)).rss ELSE AWS_BLOG_CATEGORIES[i].rss

\* C23: a search_blog_posts or get_recent_posts request retrieves one feed at a
\* time, the i-th retrieval being that of the i-th selected category; it returns
\* after one retrieval when the category is known and after exactly five when it
\* is not, whatever number of them failed; no request makes more than five
C23_OnePerCategory ==
    /\ fetches <= 5
    /\ op \in {"search", "recent"} =>
          /\ fetches > 0 => called.rss_url = Attempted(fetches)
          /\ pc = "fetching" => fetches = idx /\ idx <= (IF Known(arg.category) THEN 1 ELSE 5)
          /\ pc = "done" => fetches = (IF Known(arg.category) THEN 1 ELSE 5)
          /\ failures <= fetches

C23_Witness ==
    /\ op = "search" /\ pc = "done" /\ FanOut /\ fetches = 5 /\ failures = 4
    /\ Len(unsorted) = 1 /\ called.rss_url = AWS_BLOG_CATEGORIES[5].rss

\* what the i-th selected category gives by itself: nothing when its retrieval
\* failed, and otherwise what the handler's loop body makes of its entries
Contribution(a, resp, i) ==
    IF resp.kind # "ok" THEN <<>>
    ELSE IF op = "search" THEN search_step(<<>>, FeedOk(resp.entries), a, i).val
    ELSE recent_step(<<>>, FeedOk(resp.entries), a, i).val

RECURSIVE InRegistryOrder(_, _, _)
\* the contributions of the categories i.. in the order of the registry
InRegistryOrder(a, hist, i) ==
    IF i > Len(hist) THEN <<>>
    ELSE Contribution(a, hist[i], i) \o InRegistryOrder(a, hist, i + 1)

\* C24: the list a fan-out request returns is a function of the entries of the
\* feeds that were retrieved and of which retrievals failed: the contributions of
\* the categories, each computed from its own feed alone and empty for a failed
\* one of either kind, joined in the order of the registry, sorted and cut; the
\* handler awaits one retrieval at a time, so the answers arrive in that order
C24_OrderOfCompletion ==
    (op \in {"search", "recent"} /\ FanOut) =>
        /\ pc = "fetching" => Len(answers) = idx - 1 /\ results = InRegistryOrder(arg, answers, 1)
        /\ pc = "done" =>
              /\ Len(answers) = 5
              /\ ret = IF op = "search" THEN search_sorted(InRegistryOrder(arg, answers, 1), arg.limit)
                                       ELSE recent_sorted(InRegistryOrder(arg, answers, 1), arg.limit)

C24_Witness ==
    /\ op = "recent" /\ pc = "done" /\ FanOut /\ arg.limit = 6
    /\ answers[2].kind = "TimeoutException" /\ answers[4].kind = "HTTPStatusError"
    /\ Len(ret) = 6 /\ Len(InRegistryOrder(arg, answers, 1)) = 6
    /\ ret[1].category # ret[2].category /\ ret[1].published_date = ret[2].published_date

\* the number of entries of the feed that match the query
Matches(resp, query) == Len(search_entries(resp.entries, Lower(query), 1))

\* C28: a search without a known category returns at most the sum of the limits
\* passed to the searches of its five categories, and exactly limit results when
\* each of the five feeds was retrieved and holds at least limit matching entries
C28_FanOutCount ==
    (op = "search" /\ FanOut /\ pc = "done") =>
        /\ Len(ret) <= 5 * search_category_limit(arg.limit, arg.category)
        /\ (\A i \in 1..5 : answers[i].kind = "ok" /\ Matches(answers[i], arg.query) >= arg.limit)
              => Len(ret) = arg.limit

\* the first n entries of the feed, each as a result of relevance 3
FirstEntries(resp, n) ==
    IF resp.kind # "ok" THEN <<>>
    ELSE [j \in 1..Min(n, Len(resp.entries)) |-> SearchResult(resp.entries[j], 3)]

RECURSIVE FirstOfEach(_, _, _)
\* the first n entries of each of the feeds i.., in the order of the answers
FirstOfEach(hist, n, i) ==
    IF i > Len(hist) THEN <<>> ELSE FirstEntries(hist[i], n) \o FirstOfEach(hist, n, i + 1)

\* C29: a search with the empty query gives every entry relevance 3 and discards
\* none: what it collects is the first entries of each feed retrieved, as many as
\* the limit passed to the search of that feed, and what it returns is the first
\* limit of them
C29_EmptyQuery ==
    (op = "search" /\ arg.query = "") =>
        /\ unsorted = FirstOfEach(answers, search_call(arg, 1).limit, 1)
        /\ pc = "done" => ret = Slice(unsorted, 0, arg.limit)

C29_Witness ==
    /\ op = "search" /\ arg.query = "" /\ pc = "done" /\ FanOut /\ arg.limit = 5
    /\ answers[1] = FeedOk(LongFeed) /\ answers[2].kind = "TimeoutException"
    /\ answers[3] = FeedOk(Slice(LongFeed, 1, 3)) /\ answers[4] = FeedOk(<<>>)
    /\ ret = <<SearchResult(LongFeed[1], 3), SearchResult(LongFeed[2], 3), SearchResult(LongFeed[1], 3)>>

-----------------------------------------------------------------------------
(* Two requests in flight on one event loop.  A handler runs without        *)
(* interruption from one await to the next; the awaits are the retrievals   *)
(* of feeds and pages, so the steps of two requests interleave there.  The  *)
(* first request lives in pc, op, arg, idx, results, ret, raised, answers,  *)
(* the second in other.                                                     *)

PairLimit == 2

PairFeed == << Entry("Ab", "c", Some(<<2025, 10, 28, 16, 59, 17, 1, 301, 0>>)), Entry("c", "xaB", None) >>

PairFeedResponses ==
    {FeedOk(PairFeed), [kind |-> "TimeoutException", entries |-> <<>>, msg |-> "", status |-> ""]}

PairPageResponses ==
    {PageOk(TitlePage), [kind |-> "ConnectError", page |-> EmptyPage,
                         msg |-> "All connection attempts failed", status |-> ""]}

\* a list made once, when the module is loaded, is the same object in every call
module_list(h) == 1

\* server.py:230 "results = []", 324 "posts = []": the display creates a list,
\* whose identity is that of no object alive
new_list(h) ==
    CHOOSE k \in 1..(Cardinality(DOMAIN h) + 1) :
        k \notin DOMAIN h /\ \A j \in 1..(k - 1) : j \in DOMAIN h

\* the heap after "results = []" bound results to the object ref
Created(h, ref) == [k \in DOMAIN h \cup {ref} |-> IF k = ref THEN <<>> ELSE h[k]]

\* results.extend(...) (lines 236, 245, 330, 337): the object results refers to
\* becomes acc, whatever other name refers to it
Extended(h, ref, acc) == [h EXCEPT ![ref] = acc]

\* the objects a request's locals refer to
Refs(me) == IF IsSome(me.results) THEN {Get(me.results)} ELSE {}

\* the heap once the objects no request refers to are reclaimed
Collect(h, refs) == [k \in DOMAIN h \cap ({RegistryId} \cup refs) |-> h[k]]

\* the first request, as a record of its locals; in the service of two requests
\* results is the reference the local holds: None, or the identity of a list
First ==
    [pc |-> pc, op |-> op, arg |-> arg, idx |-> idx, results |-> results, ret |-> ret,
     raised |-> raised, answers |-> answers]

\* a handler that reached its first await, and one that returned r
Awaiting(o, a) == [NoRequest EXCEPT !.pc = "fetching", !.op = o, !.arg = a, !.idx = 1]
Returned(o, a, r) == [NoRequest EXCEPT !.pc = "done", !.op = o, !.arg = a, !.ret = r.ret, !.raised = r.raised]

\* search_blog_posts and get_recent_posts up to their first await (lines 227-235,
\* 321-329): the locals, results bound to a list just created, and the heap
CalledFanOut(o, a, h) ==
    <<[Awaiting(o, a) EXCEPT !.results = Some(new_list(h))], Created(h, new_list(h))>>

\* get_rss_feed up to its await: an unknown category returns without one
CalledRss(category, limit) ==
    IF InRegistry(category) THEN Awaiting("rss", [category |-> category, limit |-> limit])
    ELSE Returned("rss", [category |-> category, limit |-> limit],
                  get_rss_feed(category, FeedOk(<<>>), limit))

\* read_blog_post up to its await: a URL outside the blog returns without one
CalledRead(url) ==
    IF StartsWith(url, BLOGS) THEN Awaiting("read", [url |-> url])
    ELSE Returned("read", [url |-> url], read_blog_post(url, PageOk(EmptyPage), DefaultMaxLength, 0))

\* the requests that may arrive, each run to its first await or to its return,
\* with the heap h as the run leaves it
PairCalls(h) ==
    {CalledFanOut("search", [query |-> "aB", category |-> c, limit |-> PairLimit], h) :
        c \in {None, Some("compute")}}
    \cup {CalledFanOut("recent", [category |-> c, limit |-> PairLimit], h) : c \in {None, Some("compute")}}
    \cup {<<CalledRss(c, PairLimit), h>> : c \in {"compute", "nope"}}
    \cup {<<CalledRead(u), h>> :
            u \in {"https://aws.amazon.com/blogs/aws/p/", "http://aws.amazon.com/blogs/aws/p/"}}
    \cup {<<Returned("list", <<>>, [ret |-> list_blog_categories, raised |-> FALSE]), h>>}

\* the heap after sorted(...)[:limit] made the list sorted_list and the name
\* results was bound to it
Sorted(h, ref, sorted_list) == [Created(h, ref) EXCEPT ![ref] = sorted_list]

\* a fan-out handler after the step n that followed the answer resp: the list
\* its results refers to was extended in place and, at the return (lines 251-253,
\* 343-345), results was bound to the list that sorted and the slice created;
\* a handler that left through its except keeps the list it had
Stepped(me, n, resp, h) ==
    << [me EXCEPT !.results = IF n.done /\ ~n.exc THEN Some(new_list(h)) ELSE me.results,
                  !.ret = n.ret, !.raised = n.raised,
                  !.pc = IF n.done THEN "done" ELSE "fetching",
                  !.idx = IF n.done THEN me.idx ELSE me.idx + 1,
                  !.answers = Append(me.answers, resp)],
       IF n.exc THEN h
       ELSE IF n.done THEN Sorted(Extended(h, Get(me.results), n.acc), new_list(h), n.ret)
       ELSE Extended(h, Get(me.results), n.acc) >>

\* a handler with one await after its retrieval answered resp and it returned r
Answered(me, r, resp) ==
    [me EXCEPT !.ret = r.ret, !.raised = r.raised, !.pc = "done", !.answers = <<resp>>]

\* the request me resumed on the heap h: the retrieval it awaits answers and it
\* runs to its next await or returns; the list a fan-out handler goes on with is
\* the object its results refers to, as the heap holds it now
Resumed(me, h) ==
    IF me.op = "search"
    THEN {Stepped(me, search_blog_posts_next(h[Get(me.results)], resp, me.arg, me.idx), resp, h) :
            resp \in PairFeedResponses}
    ELSE IF me.op = "recent"
    THEN {Stepped(me, get_recent_posts_next(h[Get(me.results)], resp, me.arg, me.idx), resp, h) :
            resp \in PairFeedResponses}
    ELSE IF me.op = "rss"
    THEN {<<Answered(me, get_rss_feed(me.arg.category, resp, me.arg.limit), resp), h>> :
            resp \in PairFeedResponses}
    ELSE {<<Answered(me, read_blog_post(me.arg.url, resp, DefaultMaxLength, 0), resp), h>> :
            resp \in PairPageResponses}

\* the first request becomes s[1] and the heap s[2], less what nobody refers to
SetFirst(s) ==
    /\ pc' = s[1].pc /\ op' = s[1].op /\ arg' = s[1].arg /\ idx' = s[1].idx
    /\ results' = s[1].results /\ ret' = s[1].ret /\ raised' = s[1].raised
    /\ answers' = s[1].answers
    /\ heap' = Collect(s[2], Refs(s[1]) \cup Refs(other))
    /\ UNCHANGED <<shadow, fetches, failures, collected, called, feed, other, python, unsorted>>

\* the second request becomes s[1] and the heap s[2], less what nobody refers to
SetSecond(s) ==
    /\ other' = s[1]
    /\ heap' = Collect(s[2], Refs(s[1]) \cup Refs(First))
    /\ UNCHANGED <<pc, op, arg, idx, results, shadow, ret, raised, fetches, failures, collected,
                   called, feed, answers, python, unsorted>>

FirstCalls == pc = "idle" /\ \E s \in PairCalls(heap) : SetFirst(s)
FirstResumes == pc = "fetching" /\ \E s \in Resumed(First, heap) : SetFirst(s)
FirstReturns == pc = "done" /\ SetFirst(<<NoRequest, heap>>)

SecondCalls == other.pc = "idle" /\ \E s \in PairCalls(heap) : SetSecond(s)
SecondResumes == other.pc = "fetching" /\ \E s \in Resumed(other, heap) : SetSecond(s)
SecondReturns == other.pc = "done" /\ SetSecond(<<NoRequest, heap>>)

PairNext ==
    \/ FirstCalls \/ FirstResumes \/ FirstReturns
    \/ SecondCalls \/ SecondResumes \/ SecondReturns

SpecPair == Init /\ [][PairNext]_vars

\* what the request returns when it is the only one served and its retrievals
\* answer what they answered
Alone(me) ==
    IF me.op = "search" THEN search_run(<<>>, me.arg, me.answers, 1)
    ELSE IF me.op = "recent" THEN recent_run(<<>>, me.arg, me.answers, 1)
    ELSE IF me.op = "list" THEN [done |-> TRUE, ret |-> list_blog_categories, raised |-> FALSE]
    ELSE IF me.op = "rss"
    THEN IF me.answers = <<>>
         THEN [done |-> ~InRegistry(me.arg.category), ret |-> <<>>, raised |-> FALSE]
         ELSE [done |-> TRUE, ret |-> get_rss_feed(me.arg.category, me.answers[1], me.arg.limit).ret,
               raised |-> FALSE]
    ELSE IF me.answers = <<>>
         THEN [done |-> ~StartsWith(me.arg.url, BLOGS),
               ret |-> read_blog_post(me.arg.url, PageOk(TitlePage), DefaultMaxLength, 0).ret,
               raised |-> FALSE]
         ELSE [done |-> TRUE, ret |-> read_blog_post(me.arg.url, me.answers[1], DefaultMaxLength, 0).ret,
               raised |-> FALSE]

\* the request is where, and returns what, it would alone
AsAlone(me) ==
    me.op # "none" =>
        /\ (me.pc = "done") = Alone(me).done
        /\ me.pc = "done" => me.ret = Alone(me).ret /\ me.raised = Alone(me).raised

\* C30: while two requests of any of the five tools are served, their steps
\* interleaved in any order, the registry keeps its initial value, no object
\* that can be modified is referred to by both requests, and each request returns
\* what it returns when it is served alone and its retrievals answer the same
C30_NoSharedState ==
    /\ heap[RegistryId] = AWS_BLOG_CATEGORIES
    /\ RegistryId \notin Refs(First) \cup Refs(other)
    /\ Refs(First) \cap Refs(other) = {}
    /\ AsAlone(First)
    /\ AsAlone(other)

C30_Witness ==
    /\ op = "search" /\ pc = "done" /\ arg.category = None /\ Len(answers) = 5 /\ Len(ret) = 2
    /\ other.op = "recent" /\ other.pc = "fetching" /\ other.idx = 3
    /\ other.arg.category = None
    /\ other.results = Some(2) /\ Len(heap[2]) = 1
    /\ results = Some(3) /\ heap[3] = ret /\ DOMAIN heap = {RegistryId, 2, 3}

====
